---- MODULE Spec2Model ----
(***************************************************************************)
(* A model of the onderdelenlijn.nl scraper.                               *)
(*                                                                         *)
(*   Spec       OnderdelenLijnScraper.scrape_parts (src/scraper_new.py)    *)
(*              with find_category_urls, scrape_category_results and       *)
(*              extract_part_data, driven against a fixture site.          *)
(*   SpecFinal  the model-type resolution of scrape_part_prices            *)
(*              (src/scraper_final.py): dynamic lookup, then the static    *)
(*              fallback table of get_modeltype.                           *)
(*   SpecExtract  extract_part_data (src/scraper_new.py) run twice on a    *)
(*              fixture page, the clock ticking in between.                *)
(*   SpecJob    run_scraper_job and its check_timeout thread (src/app.py). *)
(*                                                                         *)
(* Python strings are sequences of one-character strings, so that upper(), *)
(* lower(), replace(), rstrip() and the substring test are computed.       *)
(***************************************************************************)
EXTENDS Integers, Sequences, FiniteSets, TLC

VARIABLES
    pc,             \* position of scrape_parts
    license_plate,  \* argument of scrape_parts
    part_name,      \* argument of scrape_parts
    site,           \* the fixture site: the anchors of the category page
    lookup,         \* what get_modeltype_dynamically returned ("?" before the call)
    modeltype,      \* local modeltype of scrape_parts
    page_type,      \* local page_type of scrape_parts
    results,        \* local results of scrape_parts
    ret_kind,       \* how scrape_parts ended: "pending", "dict" (it returned
                    \* results) or "raised" (an exception escaped)
    container,      \* stage 1 of find_category_urls: "?", "found", "timeout", "error"
    tried,          \* the strategies find_category_urls has evaluated, in order,
                    \* each with its outcome and the anchors it found
    matching_links, \* local matching_links of find_category_urls (anchor indices)
    won,            \* the strategy whose matches were taken (0: none)
    category_urls,  \* what find_category_urls returned
    cand,           \* index in category_urls of the candidate being scraped
    listing,        \* the fixture listing behind the candidate's URL
    cur_page,       \* the listing page the browser shows (0: not on a listing)
    all_parts,      \* local all_parts of scrape_category_results
    served,         \* the number of titled items on each page extracted by the call
    page_number,    \* local page_number of scrape_category_results
    extractions,    \* pages extracted by the current scrape_category_results call
    clicks,         \* next-clicks of the current scrape_category_results call
    cat_end,        \* how the current scrape_category_results call ended
    cat_stop,       \* what ended it and at which level that was logged
    last_wait,      \* how the staleness wait after the latest click ended,
                    \* until the next step of the call
    faulted,        \* a browser operation of the current call raised unexpectedly
    navigated,      \* the URLs driver.get was called with by scrape_category_results
    collected,      \* what each scrape_category_results call returned, in order
    failed,         \* the candidates during whose call a browser operation raised
    session_failed, \* a driver operation of the scrape raised (other than a
                    \* wait that timed out)
    diag,           \* the reason tags _debug_save_artifacts was called with
    captures,       \* for each of those calls: the steps it completed and how
                    \* it ended
    log,            \* the pipeline steps taken, in order
    f_pc,           \* position of scrape_part_prices
    f_base,         \* the plate the user has in mind, in capitals
    f_plate,        \* argument license_plate of scrape_part_prices: f_base as typed
    f_dynamic,      \* what its get_modeltype_dynamically returned
    f_modeltype,    \* local modeltype of scrape_part_prices
    f_formatted,    \* local formatted_license_plate of scrape_part_prices
    f_typed,        \* the plate typed into the lookup form
    f_key,          \* the key the fallback table was consulted with
    f_url,          \* the plate and model type segments of the URL built
    x_pc,           \* how often extract_part_data has been run on x_markup
    x_markup,       \* the li.shoppingcart items of the page given to it
    x_info,         \* its argument search_info
    x_clock,        \* the second the clock shows
    x_first,        \* what its first run returned
    x_second,       \* what its second run returned
    j_pc,           \* position of the thread running run_scraper_job
    j_status,       \* active_jobs[job_id]['status']
    j_error,        \* active_jobs[job_id]['error']
    j_results,      \* active_jobs[job_id]['results']
    j_scraped,      \* local results of run_scraper_job
    j_session,      \* the browser session of the job: "none", "open", "quit"
    j_quits,        \* the calls of driver.quit() made
    j_over,         \* more than 240 s have passed since start_time
    m_pc,           \* position of the check_timeout thread
    d_dom,          \* the elements of the page the browser shows
    d_url,          \* the URL of that page
    d_answers,      \* what the calls of detect_page_type returned, in order
    s_table,        \* the rows of the parts table of the database, in insertion order
    s_calls,        \* for each save_part_data call so far: the record passed, whether it was in the table before, and what the call returned
    t_name,         \* the part name find_category_urls is called with
    t_terms,        \* the terms its five xpath patterns search for, once built
    sp_items,       \* the span.item elements of one list item: for each the texts of the spans inside it
    sp_result,      \* part_data['specifications'] once built, as its (key, value) entries in order
    sp_built,       \* whether the specifications of the item have been built
    q_items,        \* the .result-item elements of the page after the plate lookup: the data-type attribute of each, NoneStr for one without
    q_fail,         \* the step of get_modeltype_dynamically that fails and how (step 0: none)
    q_result,       \* what the call gave its caller, once it has ended
    active_jobs,    \* app.py: the job table, entries in insertion order
    a_clock,        \* the wall clock of the server, in whole seconds
    a_accepted,     \* history: the job id answered to each accepted request
    a_rejected      \* history: the requests answered 400

vars == <<pc, license_plate, part_name, site, lookup, modeltype, page_type,
          results, ret_kind, container, tried, matching_links, won,
          category_urls, cand, listing, cur_page, all_parts, served,
          page_number, extractions, clicks, cat_end, faulted, navigated,
          collected, failed, session_failed, diag, captures, cat_stop, last_wait,
          log,
          f_pc, f_base, f_plate, f_dynamic, f_modeltype, f_formatted,
          f_typed, f_key, f_url,
          x_pc, x_markup, x_info, x_clock, x_first, x_second,
          j_pc, j_status, j_error, j_results, j_scraped, j_session, j_quits,
          j_over, m_pc,
          d_dom, d_url, d_answers,
          s_table, s_calls,
          t_name, t_terms,
          sp_items, sp_result, sp_built,
          q_items, q_fail, q_result,
          active_jobs, a_clock, a_accepted, a_rejected>>

scrapeVars == <<pc, license_plate, part_name, site, lookup, modeltype,
                page_type, results, ret_kind, container, tried,
                matching_links, won, category_urls, cand, listing, cur_page,
                all_parts, served, page_number, extractions, clicks, cat_end,
                faulted, navigated, collected, failed, session_failed, diag,
                captures, cat_stop, last_wait, log>>

finalVars == <<f_pc, f_base, f_plate, f_dynamic, f_modeltype, f_formatted,
               f_typed, f_key, f_url>>

extractVars == <<x_pc, x_markup, x_info, x_clock, x_first, x_second>>

jobVars == <<j_pc, j_status, j_error, j_results, j_scraped, j_session,
             j_quits, j_over, m_pc>>

detectVars == <<d_dom, d_url, d_answers>>

saveVars == <<s_table, s_calls>>

termsVars == <<t_name, t_terms>>

specsVars == <<sp_items, sp_result, sp_built>>

dynVars == <<q_items, q_fail, q_result>>

acceptVars == <<active_jobs, a_clock, a_accepted, a_rejected>>

\* what the actions of each specification leave alone
otherThanScrape ==
    <<finalVars, extractVars, jobVars, detectVars, saveVars, termsVars,
      specsVars, dynVars, acceptVars>>
otherThanFinal ==
    <<scrapeVars, extractVars, jobVars, detectVars, saveVars, termsVars,
      specsVars, dynVars, acceptVars>>
otherThanExtract ==
    <<scrapeVars, finalVars, jobVars, detectVars, saveVars, termsVars,
      specsVars, dynVars, acceptVars>>
otherThanJob ==
    <<scrapeVars, finalVars, extractVars, detectVars, saveVars, termsVars,
      specsVars, dynVars, acceptVars>>
otherThanDetect ==
    <<scrapeVars, finalVars, extractVars, jobVars, saveVars, termsVars,
      specsVars, dynVars, acceptVars>>
otherThanSave ==
    <<scrapeVars, finalVars, extractVars, jobVars, detectVars, termsVars,
      specsVars, dynVars, acceptVars>>
otherThanTerms ==
    <<scrapeVars, finalVars, extractVars, jobVars, detectVars, saveVars,
      specsVars, dynVars, acceptVars>>
otherThanSpecs ==
    <<scrapeVars, finalVars, extractVars, jobVars, detectVars, saveVars,
      termsVars, dynVars, acceptVars>>
otherThanDyn ==
    <<scrapeVars, finalVars, extractVars, jobVars, detectVars, saveVars,
      termsVars, specsVars, acceptVars>>
otherThanAccept ==
    <<scrapeVars, finalVars, extractVars, jobVars, detectVars, saveVars,
      termsVars, specsVars, dynVars>>

-----------------------------------------------------------------------------
(* Python values and string methods                                        *)

\* Python's None where a string is expected: no string has this element
NoneStr == <<"None">>

\* Python truthiness of an optional string: None and '' are falsy
Truthy(v) == v # NoneStr /\ v # <<>>

\* dict.get(key) of a dict modelled as a function on its keys
Get(d, k) == IF k \in DOMAIN d THEN d[k] ELSE NoneStr

UpperOf ==
    [c \in {"a", "b", "c", "d", "e", "g", "h", "i", "j", "k", "l", "n", "o",
            "p", "r", "s", "t", "u", "v", "x"} |->
        CASE c = "a" -> "A" [] c = "b" -> "B" [] c = "c" -> "C"
          [] c = "d" -> "D" [] c = "e" -> "E" [] c = "g" -> "G"
          [] c = "h" -> "H" [] c = "i" -> "I" [] c = "j" -> "J"
          [] c = "k" -> "K" [] c = "l" -> "L" [] c = "n" -> "N"
          [] c = "o" -> "O" [] c = "p" -> "P" [] c = "r" -> "R"
          [] c = "s" -> "S" [] c = "t" -> "T" [] c = "u" -> "U"
          [] c = "v" -> "V" [] c = "x" -> "X"]

\* str.upper() of one character
UpperChar(c) == IF c \in DOMAIN UpperOf THEN UpperOf[c] ELSE c

\* str.lower() of one character
LowerChar(c) ==
    IF \E l \in DOMAIN UpperOf : UpperOf[l] = c
    THEN CHOOSE l \in DOMAIN UpperOf : UpperOf[l] = c
    ELSE c

\* str.upper()
Upper(s) == [i \in 1..Len(s) |-> UpperChar(s[i])]

\* str.lower()
Lower(s) == [i \in 1..Len(s) |-> LowerChar(s[i])]

\* str.replace(ch, ''): every occurrence of the character removed
Remove(s, ch) == SelectSeq(s, LAMBDA c : c # ch)

\* needle in hay
Contains(hay, needle) ==
    \E i \in 0..(Len(hay) - Len(needle)) :
        \A j \in 1..Len(needle) : hay[i + j] = needle[j]

\* str.startswith(prefix)
StartsWith(s, prefix) ==
    /\ Len(prefix) <= Len(s)
    /\ \A j \in 1..Len(prefix) : s[j] = prefix[j]

\* str.replace(a, b) for single characters
ReplaceChar(s, a, b) == [i \in 1..Len(s) |-> IF s[i] = a THEN b ELSE s[i]]

Whitespace == {" ", "\t", "\n"}

\* str.strip(): leading and trailing whitespace removed
RECURSIVE Strip(_)
Strip(s) ==
    IF Len(s) > 0 /\ s[1] \in Whitespace THEN Strip(Tail(s))
    ELSE IF Len(s) > 0 /\ s[Len(s)] \in Whitespace
         THEN Strip(SubSeq(s, 1, Len(s) - 1))
         ELSE s

\* str.rstrip(chars): every trailing character that is in chars removed
RECURSIVE RStrip(_, _)
RStrip(s, chars) ==
    IF Len(s) > 0 /\ s[Len(s)] \in chars
    THEN RStrip(SubSeq(s, 1, Len(s) - 1), chars)
    ELSE s

-----------------------------------------------------------------------------
(* get_modeltype: the static fallback table                                *)

modeltype_map ==
    (<<"2", "7", "-", "X", "H", "-", "V", "X">> :> <<"8", "6", "0", "1">>) @@
    (<<"2", "7", "X", "H", "V", "X">> :> <<"8", "6", "0", "1">>) @@
    (<<"2", "7", "x", "h", "v", "x">> :> <<"8", "6", "0", "1">>) @@
    (<<"3", "7", "-", "L", "K", "-", "B", "B">> :> <<"6", "5", "9", "3">>) @@
    (<<"3", "7", "L", "K", "B", "B">> :> <<"6", "5", "9", "3">>) @@
    (<<"3", "7", "l", "k", "b", "b">> :> <<"6", "5", "9", "3">>)

\* the default of modeltype_map.get
DefaultModeltype == <<"8", "6", "0", "1">>

\* clean_plate = license_plate.upper().replace('-', '').replace(' ', '')
CleanPlate(plate) == Remove(Remove(Upper(plate), "-"), " ")

\* a plausible slip: the table is consulted with the plate as typed
get_modeltype_raw(plate) ==
    IF plate \in DOMAIN modeltype_map
    THEN modeltype_map[plate] ELSE DefaultModeltype

get_modeltype(plate) ==
    IF CleanPlate(plate) \in DOMAIN modeltype_map
    THEN modeltype_map[CleanPlate(plate)] ELSE DefaultModeltype

-----------------------------------------------------------------------------
(* The fixture site                                                        *)

base_url ==
    <<"h", "t", "t", "p", "s", ":", "/", "/", "w", "w", "w", ".", "o", "n",
      "d", "e", "r", "d", "e", "l", "e", "n", "l", "i", "j", "n", ".", "n",
      "l">>

\* An anchor of the category page: its title attribute, the text of its span,
\* its href, and whether it lies inside div.search-results-list.
Anchor(t, x, h, in) == [title |-> t, text |-> x, href |-> h, inside |-> in]

A_velgen ==
    Anchor(<<"V", "e", "l", "g", "e", "n">>, <<"V", "e", "l", "g", "e", "n">>,
           <<"/", "o", "n", "d", "e", "r", "d", "e", "e", "l", "/", "v", "e",
             "l", "g", "e", "n">>, TRUE)
A_velgen2 ==
    Anchor(<<"V", "e", "l", "g", "e", "n">>, <<"V", "e", "l", "g", "e", "n">>,
           <<"/", "o", "n", "d", "e", "r", "d", "e", "e", "l", "/", "v", "e",
             "l", "g", "e", "n", "-", "2">>, TRUE)
A_text ==
    Anchor(<<>>, <<"V", "e", "l", "g", "e", "n", " ", "s", "e", "t">>,
           <<"/", "o", "n", "d", "e", "r", "d", "e", "e", "l", "/", "v", "e",
             "l", "g", "e", "n", "-", "s", "e", "t">>, TRUE)
A_velg ==
    Anchor(<<"V", "e", "l", "g">>, <<"V", "e", "l", "g">>,
           base_url \o <<"/", "o", "n", "d", "e", "r", "d", "e", "e", "l", "/",
                         "v", "e", "l", "g">>, TRUE)
A_deur ==
    Anchor(<<"D", "e", "u", "r">>, <<"D", "e", "u", "r">>,
           <<"/", "o", "n", "d", "e", "r", "d", "e", "e", "l", "/", "d", "e",
             "u", "r">>, TRUE)
A_outside ==
    Anchor(<<"V", "e", "l", "g", "e", "n">>, <<>>,
           <<"/", "o", "n", "d", "e", "r", "d", "e", "e", "l", "/", "v", "e",
             "l", "g", "e", "n", "-", "e", "x", "t", "r", "a">>, FALSE)
A_info ==
    Anchor(<<"V", "e", "l", "g", "e", "n">>, <<"V", "e", "l", "g", "e", "n">>,
           <<"/", "i", "n", "f", "o", "/", "v", "e", "l", "g", "e", "n">>, TRUE)
\* an anchor without a URL: get_attribute('href') gives nothing
A_nohref ==
    Anchor(<<"V", "e", "l", "g", "e", "n">>, <<"V", "e", "l", "g", "e", "n">>,
           <<>>, TRUE)

\* The category pages of the fixture: the anchors in document order
Sites ==
    { <<>>, <<A_velgen>>, <<A_text>>, <<A_velg>>, <<A_deur>>, <<A_outside>>,
      <<A_info>>, <<A_velg, A_outside>>, <<A_velgen, A_velgen2>>,
      <<A_velgen, A_velg>>, <<A_info, A_nohref, A_velgen>> }

PartNames ==
    { <<"V", "e", "l", "g", "e", "n">>, <<"V", "e", "l", "g">>,
      <<"D", "e", "u", "r", "s">> }

ScrapePlates == { <<"1", "2", "A", "B", "C", "D">> }

\* What the plate lookup of the site can leave in the data-type attribute
SiteModeltypes == { <<"6", "5", "9", "3">>, <<>> }

-----------------------------------------------------------------------------
(* find_category_urls: the match strategies                                *)

NumStrategies == 5

\* the search term each xpath pattern is built with
StrategyTerm(i, part_lower) ==
    CASE i = 3 -> RStrip(part_lower, {"s"})
      [] i = 4 -> RStrip(part_lower, {"e", "n"})
      [] OTHER -> part_lower

\* whether xpath pattern i selects anchor a
AnchorMatches(i, a, part_lower) ==
    CASE i = 2 -> a.inside /\ Contains(Lower(a.text), StrategyTerm(i, part_lower))
      [] i = 5 -> Contains(Lower(a.title), StrategyTerm(i, part_lower))
      [] OTHER -> a.inside /\ Contains(Lower(a.title), StrategyTerm(i, part_lower))

\* the anchors (indices in document order) xpath pattern i finds
StrategyMatches(i, dom, part) ==
    SelectSeq([k \in 1..Len(dom) |-> k],
              LAMBDA k : AnchorMatches(i, dom[k], Lower(part)))

\* a plausible slip: the loop does not break on the first match
StrategyLoopEnds_nobreak(i, matches) == i = NumStrategies

\* the for loop over xpath_patterns ends on the first match or after pattern 5
StrategyLoopEnds(i, matches) == matches # <<>> \/ i = NumStrategies

TagContainerTimeout == "stage1_container_timeout"
TagNoMatches == "stage2_no_matches"

\* title = link.get_attribute('title') or link.text.strip()
LinkLabel(a) == IF a.title # <<>> THEN a.title ELSE a.text

\* a plausible slip: every anchor with a URL is kept
LinkKept_anyhref(a) == a.href # <<>>

\* href kept only if it contains 'onderdeel'; made absolute
LinkKept(a) ==
    a.href # <<>> /\
    Contains(a.href, <<"o", "n", "d", "e", "r", "d", "e", "e", "l">>)

LinkUrl(a) ==
    IF StartsWith(a.href, <<"h", "t", "t", "p">>) THEN a.href
    ELSE base_url \o a.href

\* the (title, href) tuples built from matching_links
RECURSIVE CategoryUrls(_, _)
CategoryUrls(dom, links) ==
    IF links = <<>> THEN <<>>
    ELSE LET a == dom[Head(links)]
             rest == CategoryUrls(dom, Tail(links))
         IN IF LinkKept(a) THEN <<<<LinkLabel(a), LinkUrl(a)>>>> \o rest
            ELSE rest

-----------------------------------------------------------------------------
(* extract_part_data and the result dict                                   *)

\* the pages a short listing has at most, and the pages on which a browser
\* fault is injected
MaxPages == 2
\* the numbers of titled items a page of a short listing may hold
ItemChoices == {0, 2, 3}

\* The markup of one page: its li.shoppingcart items in document order. An
\* item has the text of the span.bold of its description block (NoneStr when
\* there is no such node), the text of its span.price (NoneStr when there is
\* no such node), whether parsing it raises, and the path in its onclick
\* handler, here the triple (listing, page, position).
Item(b, pr, r, c, p, i) ==
    [bold |-> b, price |-> pr, raises |-> r, onclick |-> <<c, p, i>>]

\* page p of listing c with k titled items, led by an untitled one if u
PageMarkup(c, p, k, u) ==
    (IF u THEN <<Item(NoneStr, NoneStr, FALSE, c, p, 0)>> ELSE <<>>) \o
    [i \in 1..k |-> Item(<<"A", "s">>, <<"€", " ", "5">>, FALSE, c, p, i)]

\* the second of the clock at which the scrape of Spec runs
ScrapeClock == 0

\* part_data['title'] = bold_elem.get_text(strip=True), when there is a
\* span.bold under div.description; part_data.get('title') otherwise is None
ItemTitle(item) ==
    IF item.bold = NoneStr THEN NoneStr ELSE Strip(item.bold)

Digits == {"0", "1", "2", "3", "4", "5", "6", "7", "8", "9"}

DigitVal(c) ==
    CASE c = "0" -> 0 [] c = "1" -> 1 [] c = "2" -> 2 [] c = "3" -> 3
      [] c = "4" -> 4 [] c = "5" -> 5 [] c = "6" -> 6 [] c = "7" -> 7
      [] c = "8" -> 8 [] c = "9" -> 9

\* the first index from i on at which s has no character of set cs
RECURSIVE SkipWhile(_, _, _)
SkipWhile(s, i, cs) ==
    IF i <= Len(s) /\ s[i] \in cs THEN SkipWhile(s, i + 1, cs) ELSE i

\* whether the pattern matches at index i: the euro sign, any whitespace,
\* then at least one digit
EuroMatchAt(s, i) ==
    /\ s[i] = "€"
    /\ LET j == SkipWhile(s, i + 1, Whitespace)
       IN  j <= Len(s) /\ s[j] \in Digits

\* re.search: group 1 of the leftmost match of the pattern
\* euro sign, whitespace*, (digit+ [.,]? digit*), or NoneStr without a match
EuroAmount(s) ==
    IF \E i \in 1..Len(s) : EuroMatchAt(s, i)
    THEN LET i == CHOOSE k \in 1..Len(s) :
                    EuroMatchAt(s, k) /\ \A m \in 1..(k - 1) : ~EuroMatchAt(s, m)
             j == SkipWhile(s, i + 1, Whitespace)
             d == SkipWhile(s, j, Digits)
             e == IF d <= Len(s) /\ s[d] \in {".", ","}
                  THEN SkipWhile(s, d + 1, Digits) ELSE d
         IN  SubSeq(s, j, e - 1)
    ELSE NoneStr

\* the number a digit string denotes
RECURSIVE DigitsValue(_)
DigitsValue(ds) ==
    IF ds = <<>> THEN 0
    ELSE 10 * DigitsValue(SubSeq(ds, 1, Len(ds) - 1)) + DigitVal(ds[Len(ds)])

RECURSIVE Pow10(_)
Pow10(n) == IF n = 0 THEN 1 ELSE 10 * Pow10(n - 1)

\* float(v) of digits with at most one decimal point: the number num / den,
\* den the power of ten of the fraction without its trailing zeros
ToFloat(v) ==
    LET dot == SkipWhile(v, 1, Digits)
        frac == RStrip(SubSeq(v, dot + 1, Len(v)), {"0"})
    IN  [kind |-> "float",
         num |-> DigitsValue(SubSeq(v, 1, dot - 1) \o frac),
         den |-> Pow10(Len(frac))]

PriceOnRequest == [kind |-> "Prijs op aanvraag", num |-> 0, den |-> 1]
PriceNA == [kind |-> "N/A", num |-> 0, den |-> 1]
\* part_data has no 'price' key
PriceMissing == [kind |-> "missing", num |-> 0, den |-> 1]

\* a plausible slip: the if price_elem has no else branch
NoPriceNode_unset == PriceMissing

\* else: part_data['price'] = 'N/A'
NoPriceNode == PriceNA

\* the price field of an item
ItemPrice(item) ==
    IF item.price = NoneStr THEN NoPriceNode
    ELSE LET price_text == Strip(item.price) IN
         IF Contains(Lower(price_text),
                     <<"p", "r", "i", "j", "s", " ", "o", "p", " ", "a", "a",
                       "n", "v", "r", "a", "a", "g">>)
         THEN PriceOnRequest
         ELSE IF EuroAmount(price_text) # NoneStr
              THEN ToFloat(ReplaceChar(EuroAmount(price_text), ",", "."))
              ELSE PriceNA

\* part_data of one item (supplier, specifications and image_url left out)
PartData(item, search_info, now) ==
    [search_license_plate |-> Get(search_info, "license_plate"),
     search_part_name |-> Get(search_info, "part_name"),
     category |-> Get(search_info, "category"),
     scraped_at |-> now,
     title |-> ItemTitle(item),
     price |-> ItemPrice(item),
     source_url |-> item.onclick]

\* a plausible slip: every item is appended, titled or not
ItemEmitted_all(item) == TRUE

\* if part_data.get('title'): parts.append(part_data)
ItemEmitted(item) == Truthy(ItemTitle(item))

\* a plausible slip: an item whose parsing raised is appended all the same
ItemParsed_always(item) == TRUE

\* the try block of the item ran to its end: otherwise except ... continue
ItemParsed(item) == ~item.raises

\* the index of the first item whose parsing raises, 0 when none does
FirstRaising(markup) ==
    IF \E i \in 1..Len(markup) : markup[i].raises
    THEN CHOOSE i \in 1..Len(markup) :
            markup[i].raises /\ \A j \in 1..(i - 1) : ~markup[j].raises
    ELSE 0

\* a plausible slip: the try is around the loop, the first item that raises
\* ends it
ItemsReached_untilError(markup) ==
    IF FirstRaising(markup) = 0 THEN markup
    ELSE SubSeq(markup, 1, FirstRaising(markup) - 1)

\* for item in part_items, with the try inside the loop body and continue in
\* its except clause: the loop reaches every item
ItemsReached(markup) == markup

\* now: what time.strftime reads from the clock during the call
extract_part_data(markup, search_info, now) ==
    LET kept == SelectSeq(ItemsReached(markup),
                          LAMBDA it : ItemParsed(it) /\ ItemEmitted(it))
    IN  [i \in 1..Len(kept) |-> PartData(kept[i], search_info, now)]

\* {**search_info, 'category': category_name}
WithCategory(search_info, category_name) ==
    [k \in DOMAIN search_info \cup {"category"} |->
        IF k = "category" THEN category_name ELSE search_info[k]]

\* search_info['modeltype'] = modeltype
WithModeltype(search_info, m) ==
    [k \in DOMAIN search_info \cup {"modeltype"} |->
        IF k = "modeltype" THEN m ELSE search_info[k]]

\* A dict with insertion order: a sequence of [key, value] entries.
DictKeys(d) == { d[i].key : i \in 1..Len(d) }

\* d[k] = v
DictSet(d, k, v) ==
    IF k \in DictKeys(d)
    THEN [i \in 1..Len(d) |-> IF d[i].key = k THEN [key |-> k, value |-> v]
                                              ELSE d[i]]
    ELSE Append(d, [key |-> k, value |-> v])

DirectResultsKey ==
    <<"D", "i", "r", "e", "c", "t", " ", "R", "e", "s", "u", "l", "t", "s">>

-----------------------------------------------------------------------------
(* scrape_category_results: pagination                                     *)

\* if page_number > 50
PageLimit == 50

\* a plausible slip: the ceiling is compared one page late
LimitReached_late(n) == n > PageLimit + 1

\* a plausible slip: no safety limit on the number of pages
LimitReached_never(n) == FALSE

LimitReached(n) == n > PageLimit

\* The listings of the fixture: pages is the number of pages, the next
\* control being enabled on all but the last, where it is disabled or absent
\* (last); never: the next control is enabled on every page, however far the
\* browser goes.
Listings ==
    { [pages |-> n, never |-> FALSE, last |-> c] :
        n \in 1..MaxPages, c \in {"disabled", "absent"} }
    \cup { [pages |-> n, never |-> FALSE, last |-> "disabled"] :
              n \in {PageLimit, PageLimit + 1} }
    \cup { [pages |-> 0, never |-> TRUE, last |-> "none"] }

\* the state of the next control on page p
NextControl(l, p) == IF l.never \/ p < l.pages THEN "enabled" ELSE l.last

\* the numbers of titled items page p of listing l may hold: any of
\* ItemChoices in a short listing, one in the long ones
ItemCounts(l, p) ==
    IF ~l.never /\ l.pages <= MaxPages THEN ItemChoices ELSE {1}

NoListing == [pages |-> 0, never |-> FALSE, last |-> "none"]

-----------------------------------------------------------------------------
(* scrape_parts                                                            *)

\* scrape_category_results has not ended (or is not running)
NoStop == [cause |-> "none", level |-> "none"]

\* a plausible slip: the except clauses log at error level, as those of
\* find_category_urls do
StopLevel_errors(cause) ==
    IF cause \in {"locate_error", "click_error", "load_error"} THEN "error"
    ELSE "info"

\* every ending of scrape_category_results is logged with logging.info: the
\* disabled and the absent control, the page limit, any other exception in
\* the loop, and the outer except clause
StopLevel(cause) == "info"

\* the call ended for the cause, which was logged at a level
Stop(cause) == [cause |-> cause, level |-> StopLevel(cause)]

ScrapeInit ==
    /\ pc = "start"
    /\ license_plate \in ScrapePlates
    /\ part_name \in PartNames
    /\ site \in Sites
    /\ lookup = <<"?">>
    /\ modeltype = NoneStr
    /\ page_type = "?"
    /\ results = [search_info |-> [license_plate |-> license_plate,
                                   part_name |-> part_name],
                  categories |-> <<>>]
    /\ ret_kind = "pending"
    /\ container = "?"
    /\ tried = <<>>
    /\ matching_links = <<>>
    /\ won = 0
    /\ category_urls = <<>>
    /\ cand = 0
    /\ listing = NoListing
    /\ cur_page = 0
    /\ all_parts = <<>>
    /\ served = <<>>
    /\ page_number = 0
    /\ extractions = 0
    /\ clicks = 0
    /\ cat_end = "none"
    /\ faulted = FALSE
    /\ navigated = <<>>
    /\ collected = <<>>
    /\ failed = {}
    /\ session_failed = FALSE
    /\ diag = <<>>
    /\ captures = <<>>
    /\ cat_stop = NoStop
    /\ last_wait = "none"
    /\ log = <<>>

\* scrape_parts is not running: the state SpecFinal keeps it in
ScrapeIdle ==
    /\ pc = "idle"
    /\ license_plate = <<>>
    /\ part_name = <<>>
    /\ site = <<>>
    /\ lookup = <<"?">>
    /\ modeltype = NoneStr
    /\ page_type = "?"
    /\ results = [search_info |-> [license_plate |-> <<>>, part_name |-> <<>>],
                  categories |-> <<>>]
    /\ ret_kind = "pending"
    /\ container = "?"
    /\ tried = <<>>
    /\ matching_links = <<>>
    /\ won = 0
    /\ category_urls = <<>>
    /\ cand = 0
    /\ listing = NoListing
    /\ cur_page = 0
    /\ all_parts = <<>>
    /\ served = <<>>
    /\ page_number = 0
    /\ extractions = 0
    /\ clicks = 0
    /\ cat_end = "none"
    /\ faulted = FALSE
    /\ navigated = <<>>
    /\ collected = <<>>
    /\ failed = {}
    /\ session_failed = FALSE
    /\ diag = <<>>
    /\ captures = <<>>
    /\ cat_stop = NoStop
    /\ last_wait = "none"
    /\ log = <<>>

findVars == <<container, tried, matching_links, won, category_urls>>
pageVars == <<cand, listing, cur_page, all_parts, served, page_number,
              extractions, clicks, cat_end, faulted, navigated, collected,
              failed>>

\* a plausible slip: a missing model type does not end the scrape
ModelMissing_ignored(m) == FALSE

\* if not modeltype: return results
ModelMissing(m) == ~Truthy(m)

\* a plausible slip: the except clause is missing, the exception escapes
ExceptReturn_escapes == "raised"

\* except Exception as e: ... return results
ExceptReturn == "dict"

\* Step 1: modeltype = self.get_modeltype_dynamically(license_plate). The
\* lookup returns the data-type attribute of the first result item, or None
\* when a wait times out, an element is missing or the browser raises.
GetModeltypeDynamically ==
    /\ pc = "start"
    /\ \E m \in SiteModeltypes \cup {NoneStr} :
        /\ lookup' = m
        /\ modeltype' = m
        /\ IF ModelMissing(m)
           THEN /\ pc' = "done"
                /\ ret_kind' = "dict"
                /\ log' = log \o <<"model", "return">>
                /\ UNCHANGED results
           ELSE /\ pc' = "classify"
                /\ results' = [results EXCEPT
                        !.search_info = WithModeltype(@, m)]
                /\ log' = Append(log, "model")
                /\ UNCHANGED ret_kind
    /\ UNCHANGED <<license_plate, part_name, site, page_type, diag>>
    /\ UNCHANGED findVars
    /\ UNCHANGED pageVars
    /\ UNCHANGED session_failed
    /\ UNCHANGED captures
    /\ UNCHANGED cat_stop
    /\ UNCHANGED last_wait
    /\ UNCHANGED otherThanScrape

\* 'results' if ul#result-list exists, else 'category'
detect_page_type(results_list) ==
    IF results_list # <<>> THEN "results" ELSE "category"

\* Step 2: page_type = self.detect_page_type(). find_elements may raise,
\* which the except clause of scrape_parts turns into the return.
DetectPageType ==
    /\ pc = "classify"
    /\ \E found \in {<<>>, <<"ul">>, <<"raise">>} :
        IF found = <<"raise">>
        THEN /\ pc' = "done"
             /\ ret_kind' = ExceptReturn
             /\ log' = log \o <<"classify", "return">>
             /\ session_failed' = TRUE
             /\ UNCHANGED page_type
        ELSE /\ page_type' = detect_page_type(found)
             /\ pc' = IF page_type' = "results" THEN "direct"
                      ELSE "find_categories"
             /\ log' = Append(log, "classify")
             /\ UNCHANGED <<ret_kind, session_failed>>
    /\ UNCHANGED <<license_plate, part_name, site, lookup, modeltype, results,
                   diag>>
    /\ UNCHANGED findVars
    /\ UNCHANGED pageVars
    /\ UNCHANGED captures
    /\ UNCHANGED cat_stop
    /\ UNCHANGED last_wait
    /\ UNCHANGED otherThanScrape

\* a plausible slip: the category branch is not under the else
AfterDirect_fallthrough == "find_categories"

\* the if branch of page_type == 'results' leads to the return
AfterDirect == "done"

\* Direct results: the current page is extracted once under 'Direct Results'.
\* Reading driver.page_source may raise.
DirectExtract ==
    /\ pc = "direct"
    /\ \E ok \in BOOLEAN, k \in ItemCounts(NoListing, 1), u \in BOOLEAN :
        /\ IF ok
           THEN /\ results' = [results EXCEPT !.categories =
                        DictSet(@, DirectResultsKey,
                                extract_part_data(PageMarkup(0, 1, k, u),
                                    results.search_info, ScrapeClock))]
                /\ extractions' = extractions + 1
                /\ served' = <<k>>
                /\ ret_kind' = "dict"
                /\ pc' = AfterDirect
                /\ UNCHANGED <<faulted, session_failed>>
           ELSE /\ ret_kind' = ExceptReturn
                /\ faulted' = TRUE
                /\ session_failed' = TRUE
                /\ pc' = "done"
                /\ UNCHANGED <<results, extractions, served>>
        /\ log' = log \o <<"direct", "return">>
    /\ UNCHANGED <<license_plate, part_name, site, lookup, modeltype,
                   page_type, diag>>
    /\ UNCHANGED findVars
    /\ UNCHANGED <<cand, listing, cur_page, all_parts, page_number, clicks,
                   cat_end, navigated, collected, failed>>
    /\ UNCHANGED captures
    /\ UNCHANGED cat_stop
    /\ UNCHANGED last_wait
    /\ UNCHANGED otherThanScrape

\* The steps of _debug_save_artifacts, in order: save_screenshot, writing
\* page_source to a file, reading current_url and title, get_window_size
CaptureSteps == <<"screenshot", "page_source", "info", "window_size">>

\* the steps completed when step number f fails (0: none fails)
CaptureDone(f) ==
    IF f = 0 THEN CaptureSteps ELSE SubSeq(CaptureSteps, 1, f - 1)

\* a plausible slip: the steps are not under a try, a failing step raises
CaptureEnds_raises(f) == IF f = 0 THEN "returned" ELSE "raised"

\* except Exception as e: logging.error(...): the call returns normally
CaptureEnds(f) == "returned"

\* self._debug_save_artifacts(...), step f failing
Capture(f) == [done |-> CaptureDone(f), ended |-> CaptureEnds(f)]

\* a plausible slip: the stage-1 timeout is logged but nothing is captured
Stage1TimeoutCapture_none == <<>>

\* self._debug_save_artifacts("stage1_container_timeout")
Stage1TimeoutCapture == <<TagContainerTimeout>>

\* a plausible slip: the no-match capture reuses the stage-1 tag
NoMatchCapture_sametag == <<TagContainerTimeout>>

\* self._debug_save_artifacts("stage2_no_matches", part_name)
NoMatchCapture == <<TagNoMatches>>

\* Step 3, stage 1 of find_category_urls: wait up to 20 s for the container.
\* A TimeoutException captures diagnostics and returns []; any other
\* exception reaches the outer except clause, which returns [] as well.
FindCategoriesStage1 ==
    /\ pc = "find_categories"
    /\ log' = Append(log, "categories")
    /\ \E out \in {"found", "timeout", "error"}, f \in 0..Len(CaptureSteps) :
        /\ container' = out
        /\ session_failed' = (session_failed \/ out = "error")
        /\ CASE out = "found" ->
                  /\ f = 0
                  /\ pc' = "stage2"
                  /\ UNCHANGED <<diag, captures>>
             [] out = "timeout" ->
                  /\ pc' = "check_categories"
                  /\ diag' = diag \o Stage1TimeoutCapture
                  /\ captures' = Append(captures, Capture(f))
             [] out = "error" ->
                  /\ f = 0
                  /\ pc' = "check_categories"
                  /\ UNCHANGED <<diag, captures>>
    /\ UNCHANGED <<license_plate, part_name, site, lookup, modeltype,
                   page_type, results, ret_kind>>
    /\ UNCHANGED <<tried, matching_links, won, category_urls>>
    /\ UNCHANGED pageVars
    /\ UNCHANGED cat_stop
    /\ UNCHANGED last_wait
    /\ UNCHANGED otherThanScrape

\* Stage 2, one iteration of the loop over xpath_patterns: the wait returns
\* the anchors the pattern finds, times out when it finds none, or raises
\* something else; both failures go on to the next pattern.
TryStrategy ==
    /\ pc = "stage2"
    /\ Len(tried) < NumStrategies
    /\ LET i == Len(tried) + 1 IN
       \E out \in {"evaluated", "error"} :
        LET matches == IF out = "evaluated"
                       THEN StrategyMatches(i, site, part_name) ELSE <<>>
        IN  /\ tried' = Append(tried, [strategy |-> i,
                    outcome |-> IF out = "error" THEN "error"
                                ELSE IF matches = <<>> THEN "timeout"
                                ELSE "matched",
                    matches |-> matches])
            /\ session_failed' = (session_failed \/ out = "error")
            /\ IF matches # <<>>
               THEN matching_links' = matches /\ won' = i
               ELSE UNCHANGED <<matching_links, won>>
            /\ pc' = IF StrategyLoopEnds(i, matches) THEN "links" ELSE "stage2"
    /\ UNCHANGED <<license_plate, part_name, site, lookup, modeltype,
                   page_type, results, ret_kind, container, category_urls,
                   diag, log>>
    /\ UNCHANGED pageVars
    /\ UNCHANGED captures
    /\ UNCHANGED cat_stop
    /\ UNCHANGED last_wait
    /\ UNCHANGED otherThanScrape

\* After the loop: no match captures diagnostics and returns []; otherwise
\* the (title, href) tuples of the kept links are returned.
BuildCategoryUrls ==
    /\ pc = "links"
    /\ IF matching_links = <<>>
       THEN /\ diag' = diag \o NoMatchCapture
            /\ \E f \in 0..Len(CaptureSteps) :
                   captures' = Append(captures, Capture(f))
            /\ category_urls' = <<>>
       ELSE /\ category_urls' = CategoryUrls(site, matching_links)
            /\ UNCHANGED <<diag, captures>>
    /\ pc' = "check_categories"
    /\ UNCHANGED <<license_plate, part_name, site, lookup, modeltype,
                   page_type, results, ret_kind, container, tried,
                   matching_links, won, log>>
    /\ UNCHANGED pageVars
    /\ UNCHANGED session_failed
    /\ UNCHANGED cat_stop
    /\ UNCHANGED last_wait
    /\ UNCHANGED otherThanScrape

\* find_category_urls has returned and its locals are gone.
\* if not category_urls: return results; else the loop over category_urls
CheckCategories ==
    /\ pc = "check_categories"
    /\ tried' = <<>>
    /\ matching_links' = <<>>
    /\ won' = 0
    /\ IF category_urls = <<>>
       THEN /\ pc' = "done"
            /\ ret_kind' = "dict"
            /\ log' = Append(log, "return")
            /\ UNCHANGED cand
       ELSE /\ pc' = "navigate"
            /\ cand' = 1
            /\ UNCHANGED <<ret_kind, log>>
    /\ UNCHANGED <<license_plate, part_name, site, lookup, modeltype,
                   page_type, results, diag, container, category_urls>>
    /\ UNCHANGED <<listing, cur_page, all_parts, served, page_number,
                   extractions, clicks, cat_end, faulted, navigated, collected,
                   failed>>
    /\ UNCHANGED session_failed
    /\ UNCHANGED captures
    /\ UNCHANGED cat_stop
    /\ UNCHANGED last_wait
    /\ UNCHANGED otherThanScrape

category_name == category_urls[cand][1]
category_url == category_urls[cand][2]

\* Step 4, the start of scrape_category_results: all_parts = [],
\* page_number = 1, driver.get(category_url). If driver.get raises, the outer
\* except clause returns all_parts.
Navigate ==
    /\ pc = "navigate"
    /\ all_parts' = <<>>
    /\ served' = <<>>
    /\ page_number' = 1
    /\ extractions' = 0
    /\ clicks' = 0
    /\ navigated' = Append(navigated, category_url)
    /\ log' = Append(log, "navigate")
    /\ \E ok \in BOOLEAN, l \in Listings :
        IF ok
        THEN /\ listing' = l
             /\ cur_page' = 1
             /\ cat_end' = "none"
             /\ cat_stop' = NoStop
             /\ faulted' = FALSE
             /\ pc' = "extract"
             /\ UNCHANGED session_failed
        ELSE /\ listing' = NoListing
             /\ cur_page' = 0
             /\ cat_end' = "error"
             /\ cat_stop' = Stop("load_error")
             /\ faulted' = TRUE
             /\ session_failed' = TRUE
             /\ pc' = "store"
    /\ UNCHANGED <<license_plate, part_name, site, lookup, modeltype,
                   page_type, results, ret_kind, cand, collected, failed,
                   diag>>
    /\ UNCHANGED findVars
    /\ UNCHANGED captures
    /\ UNCHANGED last_wait
    /\ UNCHANGED otherThanScrape

\* The head of the pagination loop: the page source is parsed and its
\* records appended to all_parts. Reading driver.page_source may raise,
\* which ends the call through the outer except clause.
ExtractPage ==
    /\ pc = "extract"
    /\ \E ok \in {TRUE} \cup {b \in {FALSE} : cur_page <= MaxPages},
          k \in ItemCounts(listing, cur_page), u \in BOOLEAN :
        IF ok
        THEN /\ all_parts' = all_parts \o
                    extract_part_data(PageMarkup(cand, cur_page, k, u),
                        WithCategory(results.search_info, category_name),
                        ScrapeClock)
             /\ served' = Append(served, k)
             /\ extractions' = extractions + 1
             /\ pc' = "advance"
             /\ UNCHANGED <<cat_end, cat_stop, faulted, session_failed>>
        ELSE /\ cat_end' = "error"
             /\ cat_stop' = Stop("load_error")
             /\ faulted' = TRUE
             /\ session_failed' = TRUE
             /\ pc' = "store"
             /\ UNCHANGED <<all_parts, served, extractions>>
    /\ UNCHANGED <<license_plate, part_name, site, lookup, modeltype,
                   page_type, results, ret_kind, diag, log>>
    /\ UNCHANGED <<cand, listing, cur_page, page_number, clicks, navigated,
                   collected, failed>>
    /\ UNCHANGED findVars
    /\ UNCHANGED captures
    /\ last_wait' = "none"
    /\ UNCHANGED otherThanScrape

\* a plausible slip: no except TimeoutException around the staleness wait,
\* its timeout ends the loop like any other exception
WaitSettles_staleOnly(out) == out = "stale"

\* self.wait.until(EC.staleness_of(old_button)) returned, or timed out and
\* the except TimeoutException clause slept instead: the loop goes on. Any
\* other exception of the wait is left to the except Exception clause.
WaitSettles(out) == out \in {"stale", "timeout"}

\* a plausible slip: the break is not under the if, the loop ends after the
\* first page whatever the next control
NextStops_always(control) == TRUE

\* the loop ends when the next control is absent (NoSuchElementException)
\* or not enabled
NextStops(control) == control \in {"absent", "disabled"}

\* The tail of the pagination loop: find the next control; stop if it is
\* absent or disabled; else click it, wait for staleness (or sleep on
\* timeout), count the page and stop if the ceiling is passed. Any other
\* exception while finding or clicking ends the loop.
Advance ==
    /\ pc = "advance"
    /\ page_number <= PageLimit + 1
    /\ \E control \in {NextControl(listing, cur_page)},
          out \in {"stale", "timeout"} \cup
                  {o \in {"find_error", "click_error", "wait_error"} :
                        cur_page <= MaxPages} :
        CASE out = "find_error" ->
               /\ cat_end' = "error"
               /\ cat_stop' = Stop("locate_error")
               /\ faulted' = TRUE
               /\ session_failed' = TRUE
               /\ pc' = "store"
               /\ UNCHANGED <<cur_page, page_number, clicks, last_wait>>
          [] out # "find_error" /\ NextStops(control) ->
               /\ cat_end' = control
               /\ cat_stop' = Stop(control)
               /\ pc' = "store"
               /\ UNCHANGED <<cur_page, page_number, clicks, faulted,
                              session_failed, last_wait>>
          [] out = "click_error" /\ ~NextStops(control) ->
               /\ cat_end' = "error"
               /\ cat_stop' = Stop("click_error")
               /\ faulted' = TRUE
               /\ session_failed' = TRUE
               /\ pc' = "store"
               /\ UNCHANGED <<cur_page, page_number, clicks, last_wait>>
          [] /\ out \in {"stale", "timeout", "wait_error"}
             /\ ~NextStops(control) /\ ~WaitSettles(out) ->
               /\ clicks' = clicks + 1
               /\ cur_page' = cur_page + 1
               /\ last_wait' = out
               /\ cat_end' = "error"
               /\ cat_stop' = Stop("wait_error")
               /\ faulted' = TRUE
               /\ session_failed' = TRUE
               /\ pc' = "store"
               /\ UNCHANGED page_number
          [] /\ out \in {"stale", "timeout", "wait_error"}
             /\ ~NextStops(control) /\ WaitSettles(out) ->
               /\ clicks' = clicks + 1
               /\ last_wait' = out
               /\ cur_page' = cur_page + 1
               /\ page_number' = page_number + 1
               /\ IF LimitReached(page_number')
                  THEN /\ cat_end' = "limit"
                       /\ cat_stop' = Stop("limit")
                       /\ pc' = "store"
                  ELSE /\ cat_end' = cat_end
                       /\ cat_stop' = cat_stop
                       /\ pc' = "extract"
               /\ UNCHANGED <<faulted, session_failed>>
    /\ UNCHANGED <<license_plate, part_name, site, lookup, modeltype,
                   page_type, results, ret_kind, diag, log>>
    /\ UNCHANGED <<cand, listing, all_parts, served, extractions, navigated,
                   collected, failed>>
    /\ UNCHANGED findVars
    /\ UNCHANGED captures
    /\ UNCHANGED otherThanScrape

\* a plausible slip: a candidate whose call hit a browser fault ends the loop
MoreCandidates_stopOnFault(c, n, f) == c < n /\ ~f

\* for category_name, category_url in category_urls: the loop goes on to the
\* next candidate whatever the call for this one met
MoreCandidates(c, n, f) == c < n

\* a plausible slip: the key is assigned whatever the call returned
Keeps_always(parts) == TRUE

\* if parts: an empty list is falsy
Keeps(parts) == parts # <<>>

\* Back in scrape_parts: scrape_category_results has returned all_parts
\* (through its except clause after a fault); if parts:
\* results['categories'][category_name] = parts; then the next candidate, or
\* the return after the last one.
StoreCategory ==
    /\ pc = "store"
    /\ collected' = Append(collected, all_parts)
    /\ failed' = IF faulted THEN failed \cup {cand} ELSE failed
    /\ results' = IF Keeps(all_parts)
                  THEN [results EXCEPT !.categories =
                            DictSet(@, category_name, all_parts)]
                  ELSE results
    /\ IF MoreCandidates(cand, Len(category_urls), faulted)
       THEN /\ cand' = cand + 1
            /\ pc' = "navigate"
            /\ UNCHANGED <<ret_kind, log>>
       ELSE /\ pc' = "done"
            /\ ret_kind' = "dict"
            /\ log' = Append(log, "return")
            /\ UNCHANGED cand
    /\ UNCHANGED <<license_plate, part_name, site, lookup, modeltype,
                   page_type, diag>>
    /\ UNCHANGED <<listing, cur_page, all_parts, served, page_number,
                   extractions, clicks, cat_end, faulted, navigated>>
    /\ UNCHANGED findVars
    /\ UNCHANGED session_failed
    /\ UNCHANGED captures
    /\ UNCHANGED cat_stop
    /\ last_wait' = "none"
    /\ UNCHANGED otherThanScrape

-----------------------------------------------------------------------------
(* scrape_part_prices (scraper_final.py): the model-type resolution        *)

\* the separators typed into a plate at most
MaxSeps == 2

PlateBases ==
    { <<"2", "7", "X", "H", "V", "X">>, <<"3", "7", "L", "K", "B", "B">>,
      <<"1", "2", "A", "B", "C", "D">> }

\* s with the characters at the positions in low lower-cased and sep[i]
\* typed after character i
RECURSIVE Typed(_, _, _, _)
Typed(s, low, sep, i) ==
    IF i > Len(s) THEN <<>>
    ELSE <<IF i \in low THEN LowerChar(s[i]) ELSE s[i]>> \o sep[i] \o
         Typed(s, low, sep, i + 1)

\* The ways a user may type base plate b: any mix of cases with at most
\* MaxSeps hyphens or spaces
FinalPlates(b) ==
    { Typed(b, low, sep, 1) :
        low \in SUBSET (3..6),
        sep \in { f \in [1..6 -> {<<>>, <<"-">>, <<" ">>}] :
                    Cardinality({i \in 1..6 : f[i] # <<>>}) <= MaxSeps } }

FinalInit ==
    /\ f_pc = "start"
    /\ f_base \in PlateBases
    /\ f_plate \in FinalPlates(f_base)
    /\ f_dynamic = <<"?">>
    /\ f_modeltype = NoneStr
    /\ f_formatted = NoneStr
    /\ f_typed = NoneStr
    /\ f_key = NoneStr
    /\ f_url = [plate |-> NoneStr, modeltype |-> NoneStr]

FinalIdle ==
    /\ f_pc = "idle"
    /\ f_base = <<>>
    /\ f_plate = <<>>
    /\ f_dynamic = <<"?">>
    /\ f_modeltype = NoneStr
    /\ f_formatted = NoneStr
    /\ f_typed = NoneStr
    /\ f_key = NoneStr
    /\ f_url = [plate |-> NoneStr, modeltype |-> NoneStr]

\* formatted_license_plate = license_plate.lower().replace('-', '')
\*                                        .replace(' ', '')
FormatPlate(plate) == Remove(Remove(Lower(plate), "-"), " ")

F_Format ==
    /\ f_pc = "start"
    /\ f_formatted' = FormatPlate(f_plate)
    /\ f_pc' = "formatted"
    /\ UNCHANGED <<f_base, f_plate, f_dynamic, f_modeltype, f_typed, f_key,
                   f_url>>
    /\ UNCHANGED otherThanFinal

\* modeltype = get_modeltype_dynamically(license_plate, driver): the lookup
\* types its argument into the form (license_input.send_keys)
F_GetModeltypeDynamically ==
    /\ f_pc = "formatted"
    /\ f_typed' = f_plate
    /\ \E m \in SiteModeltypes \cup {NoneStr} :
        /\ f_dynamic' = m
        /\ f_modeltype' = m
    /\ f_pc' = "looked_up"
    /\ UNCHANGED <<f_base, f_plate, f_formatted, f_key, f_url>>
    /\ UNCHANGED otherThanFinal

\* if not modeltype: modeltype = get_modeltype(license_plate)
F_Fallback ==
    /\ f_pc = "looked_up"
    /\ IF ~Truthy(f_modeltype)
       THEN /\ f_modeltype' = get_modeltype(f_plate)
            /\ f_key' = CleanPlate(f_plate)
       ELSE UNCHANGED <<f_modeltype, f_key>>
    /\ f_pc' = "resolved"
    /\ UNCHANGED <<f_base, f_plate, f_dynamic, f_formatted, f_typed, f_url>>
    /\ UNCHANGED otherThanFinal

\* url = f".../zoeken/kenteken/{formatted_license_plate}/modeltype/
\*        {modeltype}/"
F_BuildUrl ==
    /\ f_pc = "resolved"
    /\ f_url' = [plate |-> f_formatted, modeltype |-> f_modeltype]
    /\ f_pc' = "url"
    /\ UNCHANGED <<f_base, f_plate, f_dynamic, f_modeltype, f_formatted,
                   f_typed, f_key>>
    /\ UNCHANGED otherThanFinal

-----------------------------------------------------------------------------
(* extract_part_data run twice on one page                                 *)

\* the items a page given to extract_part_data holds at most
MaxItems == 2
\* the ticks of the clock between the two runs at most
MaxTicks == 1

\* The kinds of item of the fixture pages: the text of span.bold, the text
\* of span.price, and whether parsing the item raises
ItemKind(b, pr, r) == [bold |-> b, price |-> pr, raises |-> r]

ItemKinds ==
    { ItemKind(<<"A", "s">>, <<"€", " ", "1", "2", "3", ",", "4", "5">>, FALSE),
      ItemKind(<<" ", "A", "s", " ">>, <<"€", "1", "2", "3", ".", "4", "5">>, FALSE),
      ItemKind(<<"B", "x">>, <<"P", "r", "i", "j", "s", " ", "o", "p", " ",
                               "a", "a", "n", "v", "r", "a", "a", "g">>, FALSE),
      ItemKind(<<"B", "x">>, <<"P", "R", "I", "J", "S", " ", "O", "P", " ",
                               "A", "A", "N", "V", "R", "A", "A", "G", " ",
                               "€", " ", "5">>, FALSE),
      ItemKind(<<"A", "s">>, NoneStr, FALSE),
      ItemKind(<<"A", "s">>, <<"g", "r", "a", "t", "i", "s">>, FALSE),
      ItemKind(<<"B", "x">>, <<"€", " ", ",", "5", "0">>, FALSE),
      ItemKind(<<"B", "x">>, <<"€", " ", "-", " ", "€", " ", "7">>, FALSE),
      ItemKind(<<"A", "s">>, <<" ", "€", " ", "1", "2", ",", "5", "0", " ">>, FALSE),
      ItemKind(<<"B", "x">>, <<"€", " ", "1", ".", "2", "3", "4", ",", "5", "6">>, FALSE),
      ItemKind(<<"A", "s">>, <<"€", " ", "5">>, TRUE),
      ItemKind(NoneStr, <<"€", " ", "5">>, FALSE),
      ItemKind(<<>>, <<"€", " ", "5">>, FALSE),
      ItemKind(<<" ">>, NoneStr, FALSE) }

\* the page with items of the given kinds, in document order
KindsMarkup(kinds) ==
    [i \in 1..Len(kinds) |->
        Item(kinds[i].bold, kinds[i].price, kinds[i].raises, 0, 1, i)]

\* a longer page: an item whose parsing raises between two titled ones
LongMarkup ==
    KindsMarkup(<<ItemKind(<<"A", "s">>, NoneStr, FALSE),
                  ItemKind(<<"A", "s">>, <<"€", " ", "5">>, TRUE),
                  ItemKind(<<"B", "x">>, <<"€", " ", ",", "5", "0">>, FALSE)>>)

Markups ==
    UNION { { KindsMarkup(kinds) : kinds \in [1..n -> ItemKinds] } :
                n \in 0..MaxItems }
    \cup {LongMarkup}

XInfo ==
    [license_plate |-> <<"1", "2", "A", "B", "C", "D">>,
     part_name |-> <<"V", "e", "l", "g">>]

ExtractInit ==
    /\ x_pc = "start"
    /\ x_markup \in Markups
    /\ x_info \in {XInfo, WithCategory(XInfo, <<"V", "e", "l", "g", "e", "n">>)}
    /\ x_clock = 0
    /\ x_first = <<>>
    /\ x_second = <<>>

ExtractIdle ==
    /\ x_pc = "idle"
    /\ x_markup = <<>>
    /\ x_info = XInfo
    /\ x_clock = 0
    /\ x_first = <<>>
    /\ x_second = <<>>

\* parts = self.extract_part_data(soup, search_info), the first time
X_Extract ==
    /\ x_pc = "start"
    /\ x_first' = extract_part_data(x_markup, x_info, x_clock)
    /\ x_pc' = "once"
    /\ UNCHANGED <<x_markup, x_info, x_clock, x_second>>
    /\ UNCHANGED otherThanExtract

\* a second passes between the two runs
X_Tick ==
    /\ x_pc = "once"
    /\ x_clock < MaxTicks
    /\ x_clock' = x_clock + 1
    /\ UNCHANGED <<x_pc, x_markup, x_info, x_first, x_second>>
    /\ UNCHANGED otherThanExtract

\* the same call on the same markup and context, the second time
X_ExtractAgain ==
    /\ x_pc = "once"
    /\ x_second' = extract_part_data(x_markup, x_info, x_clock)
    /\ x_pc' = "twice"
    /\ UNCHANGED <<x_markup, x_info, x_clock, x_first>>
    /\ UNCHANGED otherThanExtract

-----------------------------------------------------------------------------
(* run_scraper_job and its check_timeout thread (app.py)                   *)

JobInit ==
    /\ j_pc = "start"
    /\ j_status = "started"
    /\ j_error = "null"
    /\ j_results = "null"
    /\ j_scraped = "null"
    /\ j_session = "none"
    /\ j_quits = 0
    /\ j_over = FALSE
    /\ m_pc = "unstarted"

JobIdle ==
    /\ j_pc = "idle"
    /\ j_status = "started"
    /\ j_error = "null"
    /\ j_results = "null"
    /\ j_scraped = "null"
    /\ j_session = "none"
    /\ j_quits = 0
    /\ j_over = FALSE
    /\ m_pc = "unstarted"

\* active_jobs[job_id]['status'] = 'running'; start_time = time()
J_Running ==
    /\ j_pc = "start"
    /\ j_status' = "running"
    /\ j_pc' = "construct"
    /\ UNCHANGED <<j_error, j_results, j_scraped, j_session, j_quits, j_over,
                   m_pc>>
    /\ UNCHANGED otherThanJob

\* scraper = OnderdelenLijnScraper(headless=True, timeout=30). _setup_driver
\* creates the session and sets its timeouts: "ok"; or creating the driver
\* raises: "no_driver"; or the driver is created and one of
\* set_page_load_timeout, implicitly_wait, execute_script raises:
\* "setup_raised". _setup_driver re-raises, which run_scraper_job catches in
\* its outer except clause.
J_Construct ==
    /\ j_pc = "construct"
    /\ \E out \in {"ok", "no_driver", "setup_raised"} :
        /\ j_session' = IF out = "no_driver" THEN "none" ELSE "open"
        /\ j_pc' = IF out = "ok" THEN "configure" ELSE "except"
    /\ UNCHANGED <<j_status, j_error, j_results, j_scraped, j_quits, j_over,
                   m_pc>>
    /\ UNCHANGED otherThanJob

\* if scraper.driver: set_page_load_timeout(60); implicitly_wait(10). These
\* calls stand before the try ... finally; if one raises, the outer except
\* clause is next.
J_Configure ==
    /\ j_pc = "configure"
    /\ \E ok \in BOOLEAN :
        j_pc' = IF ok THEN "start_monitor" ELSE "except"
    /\ UNCHANGED <<j_status, j_error, j_results, j_scraped, j_session,
                   j_quits, j_over, m_pc>>
    /\ UNCHANGED otherThanJob

\* inside the try: the Chrome check (its errors swallowed), the check of
\* scraper.driver (set, the constructor having returned), and
\* timeout_thread.start()
J_StartMonitor ==
    /\ j_pc = "start_monitor"
    /\ m_pc' = "test"
    /\ j_pc' = "scraping"
    /\ UNCHANGED <<j_status, j_error, j_results, j_scraped, j_session,
                   j_quits, j_over>>
    /\ UNCHANGED otherThanJob

\* results = scraper.scrape_parts(license_plate, part_name): it returns its
\* dict whatever happens to the session, with or without parts
J_Scrape ==
    /\ j_pc = "scraping"
    /\ j_scraped' \in {"with_parts", "no_parts"}
    /\ j_pc' = "check"
    /\ UNCHANGED <<j_status, j_error, j_results, j_session, j_quits, j_over,
                   m_pc>>
    /\ UNCHANGED otherThanJob

\* if active_jobs[job_id]['status'] == 'failed': return
J_CheckTimedOut ==
    /\ j_pc = "check"
    /\ j_pc' = IF j_status = "failed" THEN "finally" ELSE "complete"
    /\ UNCHANGED <<j_status, j_error, j_results, j_scraped, j_session,
                   j_quits, j_over, m_pc>>
    /\ UNCHANGED otherThanJob

\* active_jobs[job_id]['status'] = 'completed'
J_Complete ==
    /\ j_pc = "complete"
    /\ j_status' = "completed"
    /\ j_pc' = "publish"
    /\ UNCHANGED <<j_error, j_results, j_scraped, j_session, j_quits, j_over,
                   m_pc>>
    /\ UNCHANGED otherThanJob

\* active_jobs[job_id]['results'] = results
J_Publish ==
    /\ j_pc = "publish"
    /\ j_results' = j_scraped
    /\ j_pc' = "finally"
    /\ UNCHANGED <<j_status, j_error, j_scraped, j_session, j_quits, j_over,
                   m_pc>>
    /\ UNCHANGED otherThanJob

\* scraper.close(): if self.driver: self.driver.quit()
close(session) == "quit"

\* finally: try: scraper.close() except: pass
J_Finally ==
    /\ j_pc = "finally"
    /\ j_session' = close(j_session)
    /\ j_quits' = j_quits + 1
    /\ j_pc' = "exited"
    /\ UNCHANGED <<j_status, j_error, j_results, j_scraped, j_over, m_pc>>
    /\ UNCHANGED otherThanJob

\* except Exception as e: active_jobs[job_id]['status'] = 'failed'
J_Except ==
    /\ j_pc = "except"
    /\ j_status' = "failed"
    /\ j_pc' = "except_error"
    /\ UNCHANGED <<j_error, j_results, j_scraped, j_session, j_quits, j_over,
                   m_pc>>
    /\ UNCHANGED otherThanJob

\* active_jobs[job_id]['error'] = str(e)
J_ExceptError ==
    /\ j_pc = "except_error"
    /\ j_error' = "exception"
    /\ j_pc' = "exited"
    /\ UNCHANGED <<j_status, j_results, j_scraped, j_session, j_quits, j_over,
                   m_pc>>
    /\ UNCHANGED otherThanJob

\* the wall clock passes start_time + 240 s
J_BudgetPasses ==
    /\ j_pc \notin {"idle", "start"}
    /\ ~j_over
    /\ j_over' = TRUE
    /\ UNCHANGED <<j_pc, j_status, j_error, j_results, j_scraped, j_session,
                   j_quits, m_pc>>
    /\ UNCHANGED otherThanJob

\* while active_jobs[job_id]['status'] == 'running'
M_Test ==
    /\ m_pc = "test"
    /\ m_pc' = IF j_status = "running" THEN "elapsed" ELSE "ended"
    /\ UNCHANGED <<j_pc, j_status, j_error, j_results, j_scraped, j_session,
                   j_quits, j_over>>
    /\ UNCHANGED otherThanJob

\* elapsed = time() - start_time; if elapsed > 240
M_Elapsed ==
    /\ m_pc = "elapsed"
    /\ m_pc' = IF j_over THEN "mark_status" ELSE "sleep"
    /\ UNCHANGED <<j_pc, j_status, j_error, j_results, j_scraped, j_session,
                   j_quits, j_over>>
    /\ UNCHANGED otherThanJob

\* time_module.sleep(5)
M_Sleep ==
    /\ m_pc = "sleep"
    /\ m_pc' = "test"
    /\ UNCHANGED <<j_pc, j_status, j_error, j_results, j_scraped, j_session,
                   j_quits, j_over>>
    /\ UNCHANGED otherThanJob

\* active_jobs[job_id]['status'] = 'failed'
M_MarkStatus ==
    /\ m_pc = "mark_status"
    /\ j_status' = "failed"
    /\ m_pc' = "mark_error"
    /\ UNCHANGED <<j_pc, j_error, j_results, j_scraped, j_session, j_quits,
                   j_over>>
    /\ UNCHANGED otherThanJob

\* active_jobs[job_id]['error'] = f"Job timed out after ..."
M_MarkError ==
    /\ m_pc = "mark_error"
    /\ j_error' = "timed_out"
    /\ m_pc' = "close"
    /\ UNCHANGED <<j_pc, j_status, j_results, j_scraped, j_session, j_quits,
                   j_over>>
    /\ UNCHANGED otherThanJob

\* try: scraper.close() except: pass; return
M_Close ==
    /\ m_pc = "close"
    /\ j_session' = close(j_session)
    /\ j_quits' = j_quits + 1
    /\ m_pc' = "fired"
    /\ UNCHANGED <<j_pc, j_status, j_error, j_results, j_scraped, j_over>>
    /\ UNCHANGED otherThanJob

-----------------------------------------------------------------------------
(* detect_page_type called repeatedly on one page                          *)

\* the elements a fixture page holds at most
MaxElems == 3
\* the calls of detect_page_type made on it at most
MaxCalls == 2

Element(t, i) == [tag |-> t, id |-> i]

Elements ==
    { Element("ul", "result-list"), Element("ul", "menu"),
      Element("div", "result-list"), Element("li", "") }

Doms == UNION { [1..n -> Elements] : n \in 0..MaxElems }

\* a plausible slip: the selector is "#result-list", whatever the tag
IsResultList_anytag(e) == e.id = "result-list"

\* the CSS selector "ul#result-list"
IsResultList(e) == e.tag = "ul" /\ e.id = "result-list"

\* self.driver.find_elements(By.CSS_SELECTOR, "ul#result-list")
find_elements(dom) == SelectSeq(dom, IsResultList)

DetectInit ==
    /\ d_dom \in Doms
    /\ d_url \in {"search", "listing"}
    /\ d_answers = <<>>

DetectIdle ==
    /\ d_dom = <<>>
    /\ d_url = "none"
    /\ d_answers = <<>>

\* page_type = self.detect_page_type(): it reads the DOM with find_elements
\* and touches nothing else
D_Detect ==
    /\ Len(d_answers) < MaxCalls
    /\ d_answers' = Append(d_answers, detect_page_type(find_elements(d_dom)))
    /\ UNCHANGED <<d_dom, d_url>>
    /\ UNCHANGED otherThanDetect

-----------------------------------------------------------------------------
(* save_part_data (scraper.py, scraper_v2.py): the parts table             *)

\* the most calls of save_part_data in a run
MaxSaves == 3

\* the result links of the fixture
SaveUrls == { <<"/", "a">>, <<"/", "b">> }

\* The records the scrapers hand to save_part_data: scraper.py keeps an item
\* with a title and a price and sets source_url only when the item holds a
\* link; parse_results of scraper_v2.py never sets source_url. NoneStr is
\* what part_data.get returns for a key that is not there.
SaveParts ==
    { [part_title |-> t, price |-> 5, source_url |-> u] :
        t \in { <<"A">>, <<"B">> }, u \in SaveUrls \cup {NoneStr} }

\* source_url TEXT UNIQUE: a row conflicts with a stored row that has the
\* same source_url; SQLite holds every NULL distinct from every other NULL
UniqueConflict(table, part) ==
    /\ part.source_url # NoneStr
    /\ \E i \in 1..Len(table) : table[i].source_url = part.source_url

\* id INTEGER PRIMARY KEY AUTOINCREMENT, then the columns of the record
Row(table, part) ==
    [id |-> Len(table) + 1, part_title |-> part.part_title,
     price |-> part.price, source_url |-> part.source_url]

\* the record a row was inserted from
RowPart(row) ==
    [part_title |-> row.part_title, price |-> row.price,
     source_url |-> row.source_url]

\* save_part_data: INSERT OR IGNORE, commit, return cursor.rowcount > 0; an
\* exception of the database (db_ok false) is printed and False returned
save_part_data(table, part, db_ok) ==
    IF ~db_ok \/ UniqueConflict(table, part)
    THEN [table |-> table, returned |-> FALSE]
    ELSE [table |-> Append(table, Row(table, part)), returned |-> TRUE]

SaveInit ==
    /\ s_table = <<>>
    /\ s_calls = <<>>

SaveIdle ==
    /\ s_table = <<>>
    /\ s_calls = <<>>

\* one call of save_part_data on the database setup_database created
S_Save ==
    /\ Len(s_calls) < MaxSaves
    /\ \E part \in SaveParts, db_ok \in BOOLEAN :
        LET out == save_part_data(s_table, part, db_ok) IN
        /\ s_table' = out.table
        /\ s_calls' = Append(s_calls,
                [part |-> part,
                 known |-> \E i \in 1..Len(s_table) :
                              RowPart(s_table[i]) = part,
                 returned |-> out.returned])
    /\ UNCHANGED otherThanSave

-----------------------------------------------------------------------------
(* find_category_urls: the terms of the xpath patterns                     *)

\* the longest part name tried
MaxNameLen == 4

\* the letters part names are spelled with
NameLetters == {"B", "a", "e", "n", "s"}

\* the part names find_category_urls is called with
TermNames == UNION { [1..n -> NameLetters] : n \in 1..MaxNameLen }

TermsInit ==
    /\ t_name \in TermNames
    /\ t_terms = <<>>

TermsIdle ==
    /\ t_name = <<>>
    /\ t_terms = <<>>

\* part_lower = part_name.lower(), then the list xpath_patterns is built:
\* the term each pattern holds
T_BuildPatterns ==
    /\ t_terms = <<>>
    /\ t_terms' = [i \in 1..NumStrategies |-> StrategyTerm(i, Lower(t_name))]
    /\ UNCHANGED t_name
    /\ UNCHANGED otherThanTerms

-----------------------------------------------------------------------------
(* extract_part_data: the specifications of an item                        *)

\* the most span.item elements an item holds
MaxSpecs == 2

\* the label texts of the fixture
SpecLabels ==
    { <<"K", ":">>, <<"K">>, <<" ", "K", ":", " ">>, <<"K", ":", "m", ":">>,
      <<"K", "m", ":">>, <<"M", ":">> }

\* the value texts of the fixture
SpecValues == { <<"1">>, <<"2">>, <<" ", "1", " ">>, <<"1", ":", "2">> }

\* the span.item elements of the fixture, each the texts of the spans it
\* holds: none, a lone label, a label and a value, and a third span besides
SpecItems ==
    { <<>> } \cup { <<l>> : l \in SpecLabels }
    \cup { <<l, v>> : l \in SpecLabels, v \in SpecValues }
    \cup { <<<<"K", ":">>, <<"1">>, <<"x">>>> }

\* spans[0].get_text(strip=True).replace(':', '')
SpecKey(text) == Remove(Strip(text), ":")

\* spans[1].get_text(strip=True)
SpecValue(text) == Strip(text)

\* the loop over spec_items: specifications[key] = value for each element
\* with at least two spans
RECURSIVE Specifications(_, _)
Specifications(items, d) ==
    IF items = <<>> THEN d
    ELSE LET spans == Head(items) IN
         Specifications(Tail(items),
            IF Len(spans) >= 2
            THEN DictSet(d, SpecKey(spans[1]), SpecValue(spans[2]))
            ELSE d)

SpecsInit ==
    /\ sp_items \in UNION { [1..n -> SpecItems] : n \in 0..MaxSpecs }
    /\ sp_result = <<>>
    /\ sp_built = FALSE

SpecsIdle ==
    /\ sp_items = <<>>
    /\ sp_result = <<>>
    /\ sp_built = FALSE

\* specifications = {}; the loop; part_data['specifications'] = specifications
SP_Build ==
    /\ ~sp_built
    /\ sp_result' = Specifications(sp_items, <<>>)
    /\ sp_built' = TRUE
    /\ UNCHANGED sp_items
    /\ UNCHANGED otherThanSpecs

-----------------------------------------------------------------------------
(* get_modeltype_dynamically: the plate lookup                             *)

\* the most .result-item elements on the page after the lookup
MaxResultItems == 2

\* The steps of the lookup, in order: driver.get, the wait for the plate
\* input, the wait for it to be clickable, clear and send_keys, the wait for
\* the submit button, the click, the wait for the results, find_elements,
\* get_attribute, and reading the car name out of the first item
LookupSteps ==
    <<"get", "wait_input", "wait_clickable", "send_keys", "wait_submit",
      "click", "wait_results", "find_elements", "get_attribute", "car_name">>

\* the steps that are waits: they can time out as well as raise
LookupWaits == {"wait_input", "wait_clickable", "wait_submit", "wait_results"}

\* no step fails
NoFail == [step |-> 0, kind |-> "none"]

\* the ways one step of the lookup can fail
LookupFails ==
    { [step |-> i, kind |-> "error"] : i \in 1..Len(LookupSteps) }
    \cup { [step |-> i, kind |-> "timeout"] :
                i \in {j \in 1..Len(LookupSteps) : LookupSteps[j] \in LookupWaits} }

\* the pages of the fixture: every item carries a data-type attribute (empty
\* or not) or none
DynPages ==
    UNION { [1..n -> {NoneStr, <<>>, <<"6", "5", "9", "3">>, <<"7">>}] :
                n \in 0..MaxResultItems }

\* a plausible slip: the selector is .result-item, without [data-type]
DataTypeItems_all(items) == items

\* driver.find_elements(By.CSS_SELECTOR, ".result-item[data-type]")
DataTypeItems(items) == SelectSeq(items, LAMBDA a : a # NoneStr)

\* the lookup returned v
Returned(v) == [kind |-> "returned", value |-> v]

\* get_modeltype_dynamically: a failure of the car-name step is swallowed by
\* the inner except clause; any other failing step ends in the outer except
\* clause, which returns None; else the attribute of the first selected
\* item, or None when nothing is selected
get_modeltype_dynamically(items, fail) ==
    LET result_items == DataTypeItems(items) IN
    IF fail.step # 0 /\ LookupSteps[fail.step] # "car_name"
       /\ (LookupSteps[fail.step] = "get_attribute" => result_items # <<>>)
    THEN Returned(NoneStr)
    ELSE IF result_items # <<>> THEN Returned(result_items[1])
         ELSE Returned(NoneStr)

DynInit ==
    /\ q_items \in DynPages
    /\ q_fail \in LookupFails \cup {NoFail}
    /\ q_result = [kind |-> "pending", value |-> NoneStr]

DynIdle ==
    /\ q_items = <<>>
    /\ q_fail = NoFail
    /\ q_result = [kind |-> "pending", value |-> NoneStr]

\* modeltype = self.get_modeltype_dynamically(license_plate)
Q_Lookup ==
    /\ q_result.kind = "pending"
    /\ q_result' = get_modeltype_dynamically(q_items, q_fail)
    /\ UNCHANGED <<q_items, q_fail>>
    /\ UNCHANGED otherThanDyn

-----------------------------------------------------------------------------
(* start_scrape (app.py): accepting a POST /scrape request                 *)

\* the most requests the server handles in a run
MaxRequests == 3
\* the seconds that pass during a run at most
MaxSeconds == 1

\* request.get_json(): the body of the request; a field that is missing is
\* NoneStr
Requests ==
    [license_plate : { <<"1", "-", "A">>, <<"1", "A">>, NoneStr },
     part_name : { <<"a", " ", "b">>, <<"a", "_", "b">>, NoneStr }]

DigitChars == <<"0", "1", "2", "3", "4", "5", "6", "7", "8", "9">>

\* str(n) of a natural number
RECURSIVE Decimal(_)
Decimal(n) ==
    IF n < 10 THEN <<DigitChars[n + 1]>>
    ELSE Decimal(n \div 10) \o <<DigitChars[(n % 10) + 1]>>

\* job_id = f"{license_plate.replace('-', '')}_{part_name.replace(' ',
\* '_')}_{int(time.time())}"
JobId(plate, part, now) ==
    Remove(plate, "-") \o <<"_">> \o ReplaceChar(part, " ", "_")
        \o <<"_">> \o Decimal(now)

\* the entry start_scrape writes for a request
JobEntry(plate, part, now) ==
    [status |-> "started", license_plate |-> plate, part_name |-> part,
     results |-> "null", error |-> "null", started_at |-> now]

AcceptInit ==
    /\ active_jobs = <<>>
    /\ a_clock = 0
    /\ a_accepted = <<>>
    /\ a_rejected = 0

AcceptIdle ==
    /\ active_jobs = <<>>
    /\ a_clock = 0
    /\ a_accepted = <<>>
    /\ a_rejected = 0

\* POST /scrape: a body without one of the fields is answered 400; otherwise
\* the job id is built, active_jobs[job_id] is assigned the new entry, the
\* thread of run_scraper_job is started and the id is answered
A_StartScrape ==
    /\ Len(a_accepted) + a_rejected < MaxRequests
    /\ \E data \in Requests :
        IF data.license_plate = NoneStr \/ data.part_name = NoneStr
        THEN /\ a_rejected' = a_rejected + 1
             /\ UNCHANGED <<active_jobs, a_accepted>>
        ELSE LET job_id == JobId(data.license_plate, data.part_name, a_clock)
             IN /\ active_jobs' =
                        DictSet(active_jobs, job_id,
                                JobEntry(data.license_plate, data.part_name,
                                         a_clock))
                /\ a_accepted' = Append(a_accepted, job_id)
                /\ UNCHANGED a_rejected
    /\ UNCHANGED a_clock
    /\ UNCHANGED otherThanAccept

\* int(time.time()) moves on to the next second
A_Tick ==
    /\ a_clock < MaxSeconds
    /\ a_clock' = a_clock + 1
    /\ UNCHANGED <<active_jobs, a_accepted, a_rejected>>
    /\ UNCHANGED otherThanAccept

-----------------------------------------------------------------------------
(* Specifications                                                          *)

Init == ScrapeInit /\ FinalIdle /\ ExtractIdle /\ JobIdle /\ DetectIdle
    /\ SaveIdle /\ TermsIdle /\ SpecsIdle /\ DynIdle /\ AcceptIdle

Next ==
    \/ GetModeltypeDynamically
    \/ DetectPageType
    \/ DirectExtract
    \/ FindCategoriesStage1
    \/ TryStrategy
    \/ BuildCategoryUrls
    \/ CheckCategories
    \/ Navigate
    \/ ExtractPage
    \/ Advance
    \/ StoreCategory

Spec == Init /\ [][Next]_vars

\* scrape_parts runs in one thread that is never suspended for good: a step
\* that can be taken is eventually taken
SpecLive == Init /\ [][Next]_vars /\ WF_vars(Next)

InitFinal == ScrapeIdle /\ FinalInit /\ ExtractIdle /\ JobIdle /\ DetectIdle
    /\ SaveIdle /\ TermsIdle /\ SpecsIdle /\ DynIdle /\ AcceptIdle

NextFinal ==
    \/ F_Format
    \/ F_GetModeltypeDynamically
    \/ F_Fallback
    \/ F_BuildUrl

SpecFinal == InitFinal /\ [][NextFinal]_vars

InitExtract == ScrapeIdle /\ FinalIdle /\ ExtractInit /\ JobIdle /\ DetectIdle
    /\ SaveIdle /\ TermsIdle /\ SpecsIdle /\ DynIdle /\ AcceptIdle

NextExtract == X_Extract \/ X_Tick \/ X_ExtractAgain

SpecExtract == InitExtract /\ [][NextExtract]_vars

InitDetect ==
    /\ ScrapeIdle /\ FinalIdle /\ ExtractIdle /\ JobIdle /\ DetectInit
    /\ SaveIdle /\ TermsIdle /\ SpecsIdle /\ DynIdle /\ AcceptIdle

NextDetect == D_Detect

SpecDetect == InitDetect /\ [][NextDetect]_vars

InitSave ==
    /\ ScrapeIdle /\ FinalIdle /\ ExtractIdle /\ JobIdle /\ DetectIdle
    /\ SaveInit /\ TermsIdle /\ SpecsIdle /\ DynIdle /\ AcceptIdle

InitTerms ==
    /\ ScrapeIdle /\ FinalIdle /\ ExtractIdle /\ JobIdle /\ DetectIdle
    /\ SaveIdle /\ TermsInit /\ SpecsIdle /\ DynIdle /\ AcceptIdle

NextTerms == T_BuildPatterns

SpecTerms == InitTerms /\ [][NextTerms]_vars

InitSpecs ==
    /\ ScrapeIdle /\ FinalIdle /\ ExtractIdle /\ JobIdle /\ DetectIdle
    /\ SaveIdle /\ TermsIdle /\ SpecsInit /\ DynIdle /\ AcceptIdle

NextSpecs == SP_Build

SpecSpecs == InitSpecs /\ [][NextSpecs]_vars

InitDyn ==
    /\ ScrapeIdle /\ FinalIdle /\ ExtractIdle /\ JobIdle /\ DetectIdle
    /\ SaveIdle /\ TermsIdle /\ SpecsIdle /\ DynInit /\ AcceptIdle

NextDyn == Q_Lookup

SpecDyn == InitDyn /\ [][NextDyn]_vars

InitAccept ==
    /\ ScrapeIdle /\ FinalIdle /\ ExtractIdle /\ JobIdle /\ DetectIdle
    /\ SaveIdle /\ TermsIdle /\ SpecsIdle /\ DynIdle /\ AcceptInit

NextAccept ==
    \/ A_StartScrape
    \/ A_Tick

SpecAccept == InitAccept /\ [][NextAccept]_vars

NextSave == S_Save

SpecSave == InitSave /\ [][NextSave]_vars

InitJob == ScrapeIdle /\ FinalIdle /\ ExtractIdle /\ JobInit /\ DetectIdle
    /\ SaveIdle /\ TermsIdle /\ SpecsIdle /\ DynIdle /\ AcceptIdle

NextJob ==
    \/ J_Running
    \/ J_Construct
    \/ J_Configure
    \/ J_StartMonitor
    \/ J_Scrape
    \/ J_CheckTimedOut
    \/ J_Complete
    \/ J_Publish
    \/ J_Finally
    \/ J_Except
    \/ J_ExceptError
    \/ J_BudgetPasses
    \/ M_Test
    \/ M_Elapsed
    \/ M_Sleep
    \/ M_MarkStatus
    \/ M_MarkError
    \/ M_Close

SpecJob == InitJob /\ [][NextJob]_vars

-----------------------------------------------------------------------------
(* Properties                                                              *)

RECURSIVE Sum(_)
Sum(ks) == IF ks = <<>> THEN 0 ELSE Head(ks) + Sum(Tail(ks))

\* the onclick triples of the titled items of pages p.. of listing c, where
\* page p holds ks[p] titled items: page order, then item order
RECURSIVE ExpectedSources(_, _, _)
ExpectedSources(c, ks, p) ==
    IF p > Len(ks) THEN <<>>
    ELSE [i \in 1..ks[p] |-> <<c, p, i>>] \o ExpectedSources(c, ks, p + 1)

\* scrape_category_results is between its driver.get and its return
Paginating == pc \in {"extract", "advance", "store"}

\* C1: the steps of scrape_parts occur only in the order model lookup,
\* classification, then either the direct extraction or the category
\* resolver followed by navigations, then the return. The classifier runs
\* only with a model type, the resolver only on a category page, every URL
\* navigated to is one the resolver returned (in its order), and the return
\* is the last step.
C1_PipelineOrder ==
    /\ \A i \in 1..Len(log) :
        /\ log[i] = "model" => i = 1
        /\ log[i] = "classify" =>
                i = 2 /\ log[1] = "model" /\ Truthy(modeltype)
        /\ log[i] = "direct" =>
                i = 3 /\ log[2] = "classify" /\ page_type = "results"
        /\ log[i] = "categories" =>
                i = 3 /\ log[2] = "classify" /\ page_type = "category"
        /\ log[i] = "navigate" =>
                /\ i > 3
                /\ log[3] = "categories"
                /\ \A j \in 4..i : log[j] = "navigate"
        /\ log[i] = "return" => i = Len(log)
    /\ (container # "?" \/ tried # <<>>) =>
            page_type = "category" /\ Truthy(modeltype)
    /\ Len(navigated) <= Len(category_urls)
    /\ \A j \in 1..Len(navigated) : navigated[j] = category_urls[j][2]
    /\ pc = "done" <=> (log # <<>> /\ log[Len(log)] = "return")

\* a scrape that went through the resolver and two listings has returned
C1_Witness ==
    /\ pc = "done"
    /\ Len(navigated) = 2
    /\ log = <<"model", "classify", "categories", "navigate", "navigate",
               "return">>

\* the scrape took the category path with exactly one candidate, whose
\* listing has fewer pages than the ceiling and ended at a disabled next
\* control, and no browser operation raised
C2_Case ==
    /\ pc = "done"
    /\ Len(category_urls) = 1
    /\ ~faulted
    /\ ~listing.never
    /\ listing.pages >= 1
    /\ listing.pages < PageLimit
    /\ cat_end = "disabled"

\* the result has one category key, holding the records of all titled
\* items in page order then item order, each with a non-empty title
C2_OneKeyAllRecords ==
    /\ Len(results.categories) = 1
    /\ LET parts == results.categories[1].value IN
        /\ results.categories[1].key = category_urls[1][1]
        /\ Len(served) = listing.pages
        /\ Len(parts) = Sum(served)
        /\ [i \in 1..Len(parts) |-> parts[i].source_url]
                = ExpectedSources(1, served, 1)
        /\ \A i \in 1..Len(parts) : parts[i].title # <<>>

\* C2 as claimed: on the category path with one candidate whose listing has
\* n pages holding k1..kn titled items, the result has exactly one category
\* key, holding exactly k1+...+kn records in page order then item order,
\* each with a non-empty title.
C2_Original == C2_Case => C2_OneKeyAllRecords

\* C2 as amended: the above holds when at least one page holds a titled
\* item; when k1+...+kn = 0 the result has no category key at all.
C2_SingleCategoryRecords ==
    C2_Case =>
        IF Sum(served) > 0 THEN C2_OneKeyAllRecords
        ELSE results.categories = <<>>

\* two pages holding 3 and 2 titled items gave one key with 5 records
C2_Witness ==
    /\ C2_Case
    /\ served = <<3, 2>>
    /\ Len(results.categories) = 1
    /\ Len(results.categories[1].value) = 5

\* C3: scrape_parts returns its results dict on every exit path, also when a
\* browser operation raised, and the categories of that dict are a mapping
\* (possibly empty): a sequence of entries with pairwise distinct keys.
C3_AlwaysReturnsResult ==
    /\ ret_kind \in {"pending", "dict"}
    /\ pc = "done" <=> ret_kind = "dict"
    /\ \A i, j \in 1..Len(results.categories) :
            results.categories[i].key = results.categories[j].key => i = j
    /\ DOMAIN results = {"search_info", "categories"}

\* the scrape ended through the except clause: the classifier raised
C3_Witness ==
    /\ pc = "done"
    /\ log = <<"model", "classify", "return">>
    /\ ret_kind = "dict"
    /\ results.categories = <<>>

\* C4: when the dynamic lookup signals NotFound, the orchestrator takes the
\* model type from the fallback table (or its default) and goes on to the
\* page classification: the scrape never returns without having classified.
C4_FallbackOnNotFound ==
    lookup = NoneStr =>
        /\ modeltype = get_modeltype(license_plate)
        /\ pc = "done" => \E i \in 1..Len(log) : log[i] = "classify"

\* the fallback table's identifier for a plate in capitals without separators
TableValue(b) ==
    IF b \in DOMAIN modeltype_map THEN modeltype_map[b] ELSE DefaultModeltype

\* C5: on the fallback path the model type is the table's identifier of the
\* normalized plate, whatever the case and the hyphens and spaces typed, and
\* the default identifier when the normalized plate is not in the table.
C5_FallbackTable ==
    (f_pc = "resolved" /\ ~Truthy(f_dynamic)) =>
        /\ f_modeltype = TableValue(f_base)
        /\ f_base \notin DOMAIN modeltype_map =>
                f_modeltype = DefaultModeltype

\* "37-lK-bb" resolved to 6593 through the fallback table
C5_Witness ==
    /\ f_pc = "resolved"
    /\ f_dynamic = NoneStr
    /\ f_plate = <<"3", "7", "-", "l", "K", "-", "b", "b">>
    /\ f_modeltype = <<"6", "5", "9", "3">>

\* the first strategy among those tried that found an anchor (0: none did)
FirstMatched ==
    IF \E i \in 1..Len(tried) : tried[i].outcome = "matched"
    THEN CHOOSE i \in 1..Len(tried) :
            /\ tried[i].outcome = "matched"
            /\ \A j \in 1..(i - 1) : tried[j].outcome # "matched"
    ELSE 0

\* on the fixture page only strategy 4 finds an anchor among strategies 1..4
OnlyEnMatches ==
    /\ \A i \in 1..3 : StrategyMatches(i, site, part_name) = <<>>
    /\ StrategyMatches(4, site, part_name) # <<>>

\* C6: the strategies are tried in the order 1..5, each at most once; the
\* links taken are those of the first strategy that found an anchor, no
\* strategy is tried after it, and the candidates returned are built from
\* its links. When only the "en"-stripped strategy 4 matches the page (and
\* no wait raised), the links are strategy 4's and strategy 5 is not tried.
C6_FirstStrategyWins ==
    /\ Len(tried) <= NumStrategies
    /\ \A i \in 1..Len(tried) : tried[i].strategy = i
    /\ won = FirstMatched
    /\ won # 0 =>
        /\ Len(tried) = won
        /\ matching_links = tried[won].matches
        /\ matching_links = StrategyMatches(won, site, part_name)
        /\ pc \in {"links", "check_categories"}
    /\ (won = 0 /\ pc \in {"links", "check_categories"} /\ container = "found")
            => Len(tried) = NumStrategies /\ matching_links = <<>>
    /\ (pc = "check_categories" /\ won # 0) =>
            category_urls = CategoryUrls(site, tried[won].matches)
    /\ (pc \in {"links", "check_categories"} /\ container = "found"
            /\ OnlyEnMatches
            /\ \A i \in 1..Len(tried) : tried[i].outcome # "error") =>
        /\ won = 4
        /\ matching_links = StrategyMatches(4, site, part_name)
        /\ \A i \in 1..Len(tried) : tried[i].strategy # 5

\* only strategy 4 matched a page on which strategy 5 would have found
\* another anchor, and the resolver returned strategy 4's candidate
C6_Witness ==
    /\ pc = "check_categories"
    /\ site = <<A_velg, A_outside>>
    /\ OnlyEnMatches
    /\ StrategyMatches(5, site, part_name) = <<2>>
    /\ won = 4
    /\ Len(tried) = 4
    /\ category_urls = <<<<A_velg.title, A_velg.href>>>>

\* C7: when the container wait of stage 1 times out, find_category_urls
\* returns no candidate, has captured diagnostics exactly once, with the
\* container-timeout tag, has tried no strategy, and the scrape navigates
\* nowhere and returns empty categories.
C7_ContainerTimeout ==
    container = "timeout" =>
        /\ pc \in {"check_categories", "done"}
        /\ category_urls = <<>>
        /\ diag = <<TagContainerTimeout>>
        /\ tried = <<>>
        /\ navigated = <<>>
        /\ results.categories = <<>>

\* the scrape returned after a stage-1 timeout
C7_Witness ==
    /\ container = "timeout"
    /\ pc = "done"
    /\ ret_kind = "dict"
    /\ diag = <<TagContainerTimeout>>

\* find_category_urls has returned (its locals are still in view) after the
\* container appeared and no strategy found an anchor
C8_Case ==
    /\ pc = "check_categories"
    /\ container = "found"
    /\ won = 0

\* C8: when the container appears and none of the five strategies matches,
\* find_category_urls returns no candidate and has captured diagnostics
\* exactly once, with the no-match tag; that tag is never the one of a
\* stage-1 timeout, and diagnostics are captured at most once per call.
C8_NoMatchTag ==
    /\ C8_Case =>
        /\ category_urls = <<>>
        /\ Len(tried) = NumStrategies
        /\ diag = <<TagNoMatches>>
    /\ TagNoMatches # TagContainerTimeout
    /\ Len(diag) <= 1
    /\ container = "found" => \A i \in 1..Len(diag) : diag[i] # TagContainerTimeout
    /\ container = "timeout" => \A i \in 1..Len(diag) : diag[i] # TagNoMatches

\* all five strategies were evaluated, none raised, none matched
C8_Witness ==
    /\ C8_Case
    /\ Len(tried) = NumStrategies
    /\ \A i \in 1..Len(tried) : tried[i].outcome = "timeout"
    /\ diag = <<TagNoMatches>>

\* scrape_category_results has returned from a listing of N >= 1 pages whose
\* last page has a disabled next control, and no browser operation raised
C9_Case ==
    /\ pc = "store"
    /\ ~faulted
    /\ ~listing.never
    /\ listing.pages >= 1
    /\ listing.last = "disabled"

\* C9 as claimed: for a listing of N pages with the next control disabled on
\* page N, exactly N pages are extracted with N-1 next-clicks, and no
\* diagnostics are captured during pagination.
C9_Original ==
    /\ C9_Case => extractions = listing.pages /\ clicks = listing.pages - 1
    /\ Paginating => diag = <<>>

\* C9 as amended: the above holds for N up to the ceiling of 50 pages; for a
\* longer listing 50 pages are extracted with 50 next-clicks and the loop
\* stops at the ceiling.
C9_ExactlyNPages ==
    /\ (C9_Case /\ listing.pages <= PageLimit) =>
            /\ extractions = listing.pages
            /\ clicks = listing.pages - 1
            /\ cat_end = "disabled"
            /\ Len(served) = listing.pages
    /\ (C9_Case /\ listing.pages > PageLimit) =>
            /\ extractions = PageLimit
            /\ clicks = PageLimit
            /\ cat_end = "limit"
    /\ Paginating => diag = <<>>

\* a listing of two pages was extracted with one click
C9_Witness ==
    /\ C9_Case
    /\ listing.pages = 2
    /\ extractions = 2
    /\ clicks = 1

\* C10: when the next control never disables, scrape_category_results stops
\* at the ceiling: the page counter never passes 51, the call ends normally
\* (no exception) after 50 extractions with the records of all 50 pages in
\* all_parts, scrape_parts files them under the category, and no diagnostics
\* are captured.
C10_CeilingStops ==
    /\ page_number <= PageLimit + 1
    /\ extractions <= PageLimit
    /\ (pc \in {"store", "done"} /\ listing.never /\ ~faulted) =>
            /\ cat_end = "limit"
            /\ page_number = PageLimit + 1
            /\ extractions = PageLimit
            /\ Len(all_parts) = Sum(served)
            /\ Len(all_parts) = PageLimit
            /\ diag = <<>>
            /\ pc = "done" =>
                /\ ret_kind = "dict"
                /\ \E i \in 1..Len(results.categories) :
                        results.categories[i].value = all_parts

\* the scrape returned after a listing whose next control never disabled
C10_Witness ==
    /\ pc = "done"
    /\ listing.never
    /\ ~faulted
    /\ cat_end = "limit"
    /\ Len(all_parts) = PageLimit

\* C11: in the results of scrape_parts every record stored under a category
\* key has that key as its category field, on the category path and under
\* the "Direct Results" key of the direct-results path alike.
C11_CategoryFieldIsKey ==
    \A e \in 1..Len(results.categories) :
        \A i \in 1..Len(results.categories[e].value) :
            results.categories[e].value[i].category = results.categories[e].key

\* C12: the categories mapping only grows during scrape_parts: every entry
\* once stored keeps its key and its records in every later step, also when
\* a later candidate carries the same label.
C12_CategoriesOnlyGrow ==
    [][\A e \in 1..Len(results.categories) :
            /\ e <= Len(results'.categories)
            /\ results'.categories[e] = results.categories[e]]_vars

\* the label of candidate j
LabelOf(j) == category_urls[j][1]

\* the last candidate with the label of j whose call returned records
LastStored(j) ==
    CHOOSE k \in 1..Len(collected) :
        /\ LabelOf(k) = LabelOf(j)
        /\ collected[k] # <<>>
        /\ \A m \in (k + 1)..Len(collected) :
                LabelOf(m) = LabelOf(j) => collected[m] = <<>>

C14_DirectResults ==
    page_type = "results" =>
        /\ pc \in {"direct", "done"}
        /\ container = "?" /\ tried = <<>> /\ category_urls = <<>>
        /\ clicks = 0
        /\ navigated = <<>>
        /\ diag = <<>>
        /\ extractions <= 1
        /\ (pc = "done" /\ ~faulted) =>
            /\ ret_kind = "dict"
            /\ extractions = 1
            /\ Len(results.categories) = 1
            /\ results.categories[1].key = DirectResultsKey
            /\ LET parts == results.categories[1].value IN
                /\ Len(parts) = Sum(served)
                /\ [i \in 1..Len(parts) |-> parts[i].source_url]
                        = ExpectedSources(0, served, 1)
        /\ (pc = "done" /\ faulted) =>
                extractions = 0 /\ results.categories = <<>>

\* a results page with three titled items gave one key with three records
C14_Witness ==
    /\ page_type = "results"
    /\ pc = "done"
    /\ log = <<"model", "classify", "direct", "return">>
    /\ extractions = 1
    /\ DictKeys(results.categories) = {DirectResultsKey}
    /\ Len(results.categories[1].value) = 3

\* C15: extract_part_data is pure: two runs on the same markup with the same
\* context return the same records, field by field, whenever they happen and
\* whatever the clock shows.
C15_ExtractIsPure ==
    x_pc = "twice" => x_second = x_first

\* the item has a non-empty title and its parsing raises no error
Qualifies(it) ==
    /\ it.bold # NoneStr
    /\ Strip(it.bold) # <<>>
    /\ ~it.raises

\* C16: extract_part_data emits a record for an item if and only if the item
\* has a non-empty title (the stripped text of its span.bold) and its parsing
\* raised no error; every emitted record has a non-empty title, and the
\* records are in the document order of their items, one per item.
C16_EmittedIffTitled ==
    x_pc # "start" =>
        /\ \A i \in 1..Len(x_markup) :
            Qualifies(x_markup[i]) <=>
                \E j \in 1..Len(x_first) :
                    x_first[j].source_url = x_markup[i].onclick
        /\ \A j \in 1..Len(x_first) :
            /\ x_first[j].title # <<>>
            /\ x_first[j].title # NoneStr
        /\ \A j, k \in 1..Len(x_first) :
            j < k => x_first[j].source_url[3] < x_first[k].source_url[3]

\* of an item whose parsing raises and a titled one after it, only the
\* second gave a record
C16_Witness ==
    /\ x_pc = "once"
    /\ Len(x_markup) = 2
    /\ x_markup[1].raises /\ x_markup[1].bold = <<"A", "s">>
    /\ Qualifies(x_markup[2])
    /\ Len(x_first) = 1
    /\ x_first[1].source_url = <<0, 1, 2>>
    /\ x_first[1].title = <<"A", "s">>

\* the number num / den as a price
Amount(n, d) == [kind |-> "float", num |-> n, den |-> d]

\* the price each price text of the fixture stands for
ExpectedPrice(text) ==
    CASE text = NoneStr -> PriceNA
      [] text = <<"€", " ", "1", "2", "3", ",", "4", "5">> -> Amount(12345, 100)
      [] text = <<"€", "1", "2", "3", ".", "4", "5">> -> Amount(12345, 100)
      [] text = <<" ", "€", " ", "1", "2", ",", "5", "0", " ">> -> Amount(125, 10)
      [] text = <<"€", " ", "-", " ", "€", " ", "7">> -> Amount(7, 1)
      [] text = <<"€", " ", "1", ".", "2", "3", "4", ",", "5", "6">> ->
                Amount(1234, 1000)
      [] text = <<"€", " ", ",", "5", "0">> -> PriceNA
      [] text = <<"g", "r", "a", "t", "i", "s">> -> PriceNA
      [] text = <<"P", "r", "i", "j", "s", " ", "o", "p", " ", "a", "a", "n",
                  "v", "r", "a", "a", "g">> -> PriceOnRequest
      [] text = <<"P", "R", "I", "J", "S", " ", "O", "P", " ", "A", "A", "N",
                  "V", "R", "A", "A", "G", " ", "€", " ", "5">> -> PriceOnRequest

\* the item of x_markup a record was made from
ItemOf(rec) == x_markup[rec.source_url[3]]

\* C17: every record extract_part_data emits has a price: the on-request
\* sentinel if the price text contains the on-request phrase in any case
\* (also when a euro amount follows it); otherwise the number of the first
\* euro amount, a decimal comma read as a decimal point ("€ 123,45" gives
\* 123.45); otherwise "N/A"; and "N/A" when the item has no price node.
C17_PriceDecided ==
    \A j \in 1..Len(x_first) :
        LET text == ItemOf(x_first[j]).price
            price == x_first[j].price
        IN  /\ price.kind \in {"Prijs op aanvraag", "float", "N/A"}
            /\ price = ExpectedPrice(text)
            /\ text = NoneStr => price = PriceNA
            /\ (text # NoneStr /\
                Contains(Lower(text), Lower(<<"P", "r", "i", "j", "s", " ",
                    "o", "p", " ", "a", "a", "n", "v", "r", "a", "a", "g">>)))
                    => price = PriceOnRequest
            /\ price.kind = "float" => price.den > 0

\* "€ 123,45" gave 123.45, and the item without a price node gave "N/A"
C17_Witness ==
    /\ x_pc = "once"
    /\ Len(x_first) = 2
    /\ ItemOf(x_first[1]).price = <<"€", " ", "1", "2", "3", ",", "4", "5">>
    /\ x_first[1].price = Amount(12345, 100)
    /\ ItemOf(x_first[2]).price = NoneStr
    /\ x_first[2].price = PriceNA

\* C18: every browser session that was created has been torn down
\* (driver.quit) once the job that owns it is over, on every exit path:
\* normal completion, a failed scrape, an exception while the session's
\* timeouts are configured, and the supervisor's timeout.
C18_SessionTornDown ==
    (j_pc = "exited" /\ m_pc \in {"unstarted", "ended", "fired"}) =>
        j_session # "open"

\* C19: once the supervisor, having found the job running past its budget of
\* 240 s, has marked it failed, the job stays failed: run_scraper_job
\* publishes neither the status 'completed' nor results for it, under every
\* interleaving of the two threads; and the supervisor closes the session.
C19_TimeoutIsFinal ==
    /\ m_pc \in {"mark_error", "close", "fired"} =>
            j_status = "failed" /\ j_results = "null"
    /\ m_pc = "fired" => j_error = "timed_out" /\ j_session = "quit"

\* what the caller of scrape_parts receives
Outcome == [kind |-> ret_kind, value |-> results]

\* what the caller receives from a scrape for the same search that found no
\* parts: no category at all, or "Direct Results" with no record
EmptyOutcomes ==
    { [kind |-> "dict",
       value |-> [search_info |->
                     WithModeltype([license_plate |-> license_plate,
                                    part_name |-> part_name], modeltype),
                  categories |-> c]] :
        c \in { <<>>, <<[key |-> DirectResultsKey, value |-> <<>>]>> } }

\* the returned categories hold no record
NoParts ==
    \A e \in 1..Len(results.categories) : results.categories[e].value = <<>>

\* C20: when a driver operation raised during the scrape, what the caller
\* receives differs from what it receives from a scrape of the same search
\* that completed undisturbed and found no parts (which is one of
\* EmptyOutcomes).
C20_FailureSignalled ==
    /\ (pc = "done" /\ ~session_failed /\ Truthy(modeltype) /\ NoParts) =>
            Outcome \in EmptyOutcomes
    /\ (pc = "done" /\ session_failed) => Outcome \notin EmptyOutcomes

\* C21: the plate is normalized once when the scrape starts, and every later
\* use in the scrape (the value typed into the lookup form, the key of the
\* fallback table, the URL segment) is that one normalized value.
C21_NormalizedOnce ==
    /\ f_typed # NoneStr => f_typed = f_formatted
    /\ f_key # NoneStr => f_key = f_formatted
    /\ f_url.plate # NoneStr => f_url.plate = f_formatted

\* the page holds a ul element with the id result-list
HasResultList == \E k \in 1..Len(d_dom) : d_dom[k] = Element("ul", "result-list")

\* C22: detect_page_type answers "results" exactly when the page holds a
\* ul#result-list and "category" otherwise; every call on the page gives the
\* same answer, and no call changes the page or its URL.
C22_DetectIsPure ==
    /\ [](\A i \in 1..Len(d_answers) :
            /\ d_answers[i] \in {"results", "category"}
            /\ d_answers[i] = "results" <=> HasResultList
            /\ d_answers[i] = d_answers[1])
    /\ [][d_dom' = d_dom /\ d_url' = d_url]_vars

\* two calls on a page that holds a div#result-list and a ul of another id,
\* but no ul#result-list, both answered "category"
C22_Witness ==
    /\ d_dom = <<Element("div", "result-list"), Element("ul", "menu")>>
    /\ d_answers = <<"category", "category">>

\* C23: _debug_save_artifacts never propagates an error: whichever of its
\* steps fails (or none), every call returns normally, and the caller goes on
\* exactly as after a complete capture: find_category_urls returns no
\* candidate and the scrape returns empty categories as a dict.
C23_CaptureNeverRaises ==
    /\ Len(captures) = Len(diag)
    /\ \A i \in 1..Len(captures) : captures[i].ended = "returned"
    /\ captures # <<>> =>
        /\ pc \in {"check_categories", "done"}
        /\ category_urls = <<>>
        /\ navigated = <<>>
        /\ pc = "done" => ret_kind = "dict" /\ results.categories = <<>>

\* the scrape returned after a capture whose screenshot was saved and whose
\* page-source write failed
C23_Witness ==
    /\ pc = "done"
    /\ ret_kind = "dict"
    /\ captures = <<[done |-> <<"screenshot">>, ended |-> "returned"]>>

\* the most steps one call of scrape_category_results takes, its navigation
\* included: an extraction and an advance for each page up to the limit
CategoryBudget == 2 * PageLimit + 3

\* the steps scrape_category_results has left at most: the variant of its
\* pagination loop
PageBudget ==
    CASE pc = "navigate" -> CategoryBudget
      [] pc = "extract" -> 2 * (PageLimit + 1 - page_number) + 1
      [] pc = "advance" -> 2 * (PageLimit + 1 - page_number)
      [] OTHER -> 0

\* the steps find_category_urls has left at most: the variant of its loop
\* over the five patterns
StrategyBudget ==
    CASE pc = "find_categories" -> NumStrategies + 3
      [] pc = "stage2" -> NumStrategies - Len(tried) + 2
      [] pc = "links" -> 1
      [] OTHER -> 0

\* the steps scrape_parts has left at most: the candidates after the current
\* one each take a whole category budget and the step that stores it
Rank ==
    CASE pc = "done" -> 0
      [] pc \in {"navigate", "extract", "advance", "store"} ->
            (Len(category_urls) - cand) * (CategoryBudget + 1) + PageBudget + 1
      [] pc = "check_categories" ->
            Len(site) * (CategoryBudget + 1) + 1
      [] pc \in {"find_categories", "stage2", "links"} ->
            Len(site) * (CategoryBudget + 1) + 1 + StrategyBudget
      [] pc = "direct" ->
            Len(site) * (CategoryBudget + 1) + NumStrategies + 5
      [] pc = "classify" ->
            Len(site) * (CategoryBudget + 1) + NumStrategies + 6
      [] OTHER -> Len(site) * (CategoryBudget + 1) + NumStrategies + 7

\* the steps of scrape_parts other than the extraction of a page
NextButExtract ==
    \/ GetModeltypeDynamically
    \/ DetectPageType
    \/ DirectExtract
    \/ FindCategoriesStage1
    \/ TryStrategy
    \/ BuildCategoryUrls
    \/ CheckCategories
    \/ Navigate
    \/ Advance
    \/ StoreCategory

\* a call that has not returned has a step to take (the extraction of a page
\* can be taken whenever the page has some number of items to offer)
CanStep ==
    IF pc = "extract" THEN ItemCounts(listing, cur_page) # {}
    ELSE ENABLED NextButExtract

\* C24: every invocation of scrape_parts terminates. However the waits end,
\* each step strictly lowers a natural-number bound on the steps left (at
\* most five strategy attempts, at most PageLimit pages per category, one
\* call per candidate), and a call that has not returned always has a next
\* step: the call returns after finitely many steps.
C24_Terminates ==
    /\ [](Rank \in Nat /\ PageBudget \in Nat /\ StrategyBudget \in Nat)
    /\ [](pc # "done" => CanStep)
    /\ [][Rank' < Rank]_vars

\* the call returned after the strategy loop ended and a category whose next
\* control never goes away was cut off by the page limit
C24_Witness ==
    /\ pc = "done"
    /\ cat_end = "limit"
    /\ page_number > PageLimit
    /\ navigated # <<>>

\* C25: save_part_data prevents duplicates: the parts table never holds two
\* rows for the same record, and a call on a record that is already in the
\* table returns False (and so inserts nothing), records without a
\* source_url included.
C25_NoDuplicates ==
    /\ \A i, j \in 1..Len(s_table) :
            i # j => RowPart(s_table[i]) # RowPart(s_table[j])
    /\ \A k \in 1..Len(s_calls) : s_calls[k].known => ~s_calls[k].returned

\* the part-listing path segment
Segment == <<"o", "n", "d", "e", "r", "d", "e", "e", "l">>

\* the matched anchors that have a URL holding the segment, in match order
SegmentAnchors ==
    SelectSeq(matching_links,
              LAMBDA k : site[k].href # <<>> /\ Contains(site[k].href, Segment))

\* C26: every (label, URL) pair find_category_urls returns has an absolute
\* URL that contains the part-listing segment; the pairs are, in the order of
\* the matched anchors, exactly those of the anchors whose URL is there and
\* holds the segment (the URL as it is when absolute, behind the base URL
\* when not), so an anchor without URL or segment yields no pair.
C26_PairsFiltered ==
    /\ \A i \in 1..Len(category_urls) :
        /\ StartsWith(category_urls[i][2], <<"h", "t", "t", "p">>)
        /\ Contains(category_urls[i][2], Segment)
    /\ (pc = "check_categories" /\ won # 0) =>
        /\ Len(category_urls) = Len(SegmentAnchors)
        /\ \A i \in 1..Len(SegmentAnchors) :
            LET a == site[SegmentAnchors[i]] IN
            /\ category_urls[i][1] = LinkLabel(a)
            /\ category_urls[i][2] \in {a.href, base_url \o a.href}

\* three anchors matched: the first lacks the segment, the second has no URL,
\* the third yields the only pair
C26_Witness ==
    /\ pc = "check_categories"
    /\ site = <<A_info, A_nohref, A_velgen>>
    /\ matching_links = <<1, 2, 3>>
    /\ category_urls = <<<<A_velgen.title, base_url \o A_velgen.href>>>>

\* two anchors matched, one with a relative and one with an absolute URL:
\* two pairs in that order
C26_WitnessOrder ==
    /\ pc = "check_categories"
    /\ site = <<A_velgen, A_velg>>
    /\ category_urls = <<<<A_velgen.title, base_url \o A_velgen.href>>,
                         <<A_velg.title, A_velg.href>>>>

\* s with one trailing occurrence of the suffix removed, s itself without it
DropSuffix(s, suffix) ==
    IF /\ Len(s) >= Len(suffix)
       /\ SubSeq(s, Len(s) - Len(suffix) + 1, Len(s)) = suffix
    THEN SubSeq(s, 1, Len(s) - Len(suffix))
    ELSE s

\* C27: the term of fuzzy strategy 3 is the lower-cased part name with one
\* trailing "s" removed if present, the term of fuzzy strategy 4 the
\* lower-cased part name with one trailing "en" removed if present; nothing
\* else is removed, a name without the suffix is searched unchanged.
C27_FuzzyTerms ==
    t_terms # <<>> =>
        /\ t_terms[3] = DropSuffix(Lower(t_name), <<"s">>)
        /\ t_terms[4] = DropSuffix(Lower(t_name), <<"e", "n">>)

\* the mapping the label/value pairs denote when a key is the label text
\* without its trailing colon and a value is the value text
RECURSIVE TrailingColonSpecs(_, _)
TrailingColonSpecs(items, d) ==
    IF items = <<>> THEN d
    ELSE LET spans == Head(items) IN
         TrailingColonSpecs(Tail(items),
            IF Len(spans) >= 2
            THEN DictSet(d, DropSuffix(Strip(spans[1]), <<":">>), Strip(spans[2]))
            ELSE d)

\* C28: the specifications mapping of a record has, for each label/value
\* span pair of the item, the label with only its trailing colon removed as
\* key and the value text as value; a key met again takes the later value
\* and keeps its first place.
C28_SpecificationsMapping ==
    sp_built => sp_result = TrailingColonSpecs(sp_items, <<>>)

\* C29: when parsing an item of the page raises, that item yields no record
\* and every other item of the page, before and after it, still yields its
\* record (when it has a title); extract_part_data returns the list all the
\* same.
C29_ItemErrorIsolated ==
    x_pc # "start" =>
        \A i \in 1..Len(x_markup) :
            x_markup[i].raises =>
                /\ \A j \in 1..Len(x_first) :
                        x_first[j].source_url # x_markup[i].onclick
                /\ \A k \in 1..Len(x_markup) :
                        (k # i /\ Qualifies(x_markup[k])) =>
                            \E j \in 1..Len(x_first) :
                                x_first[j] = PartData(x_markup[k], x_info, 0)

\* the item in the middle raised; the one before and the one after it gave
\* the two records returned
C29_Witness ==
    /\ x_pc = "once"
    /\ x_markup = LongMarkup
    /\ Len(x_first) = 2
    /\ x_first[1].source_url = <<0, 1, 1>>
    /\ x_first[2].source_url = <<0, 1, 3>>

\* the endings of the pagination loop at the next control: the control is
\* absent or disabled, or locating or clicking it raised
ControlStops == {"absent", "disabled", "locate_error", "click_error"}

\* scrape_category_results ended at the next control
StoppedAtControl == pc = "store" /\ cat_stop.cause \in ControlStops

\* C30: whenever pagination stops at the next control (absent, disabled, or
\* an error while locating or clicking it), the stopping step makes no click
\* and drops no record, the stop is logged below error level, all_parts
\* holds the records of every page extracted so far, in order, one click
\* having been made between two extractions, and the caller receives
\* all_parts.
C30_StopKeepsRecords ==
    /\ [](StoppedAtControl =>
            /\ cat_stop.level = "info"
            /\ Len(served) = extractions
            /\ clicks = extractions - 1
            /\ [i \in 1..Len(all_parts) |-> all_parts[i].source_url]
                    = ExpectedSources(cand, served, 1))
    /\ [][/\ (pc = "advance" /\ cat_stop'.cause \in ControlStops) =>
                /\ pc' = "store"
                /\ clicks' = clicks
                /\ all_parts' = all_parts
          /\ StoppedAtControl => collected' = Append(collected, all_parts)]_vars

\* clicking the next control of the second page raised: the records of both
\* pages are kept, after the one click that led to the second
C30_Witness ==
    /\ StoppedAtControl
    /\ cat_stop = [cause |-> "click_error", level |-> "info"]
    /\ served = <<1, 1>>
    /\ clicks = 1
    /\ Len(all_parts) = 2

Carrying == { i \in 1..Len(q_items) : q_items[i] # NoneStr }

\* a wait of the lookup timed out, a form element was missing or the browser
\* raised, anywhere but in the reading of the car name
LookupBroke == q_fail.step # 0 /\ LookupSteps[q_fail.step] # "car_name"

\* C32: get_modeltype_dynamically never raises: it returns the model-type
\* attribute of the first result element that carries one, and None whenever
\* a wait timed out or the browser raised, or no element of the page carries
\* the attribute.
C32_LookupNeverRaises ==
    q_result.kind # "pending" =>
        /\ q_result.kind = "returned"
        /\ (LookupBroke \/ Carrying = {}) => q_result.value = NoneStr
        /\ (~LookupBroke /\ Carrying # {}) =>
                q_result.value =
                    q_items[CHOOSE i \in Carrying : \A j \in Carrying : i <= j]

\* the first item has no attribute, the second has one: its value was
\* returned, though reading the car name raised
C32_Witness ==
    /\ q_result = Returned(<<"6", "5", "9", "3">>)
    /\ q_items = <<NoneStr, <<"6", "5", "9", "3">>>>
    /\ q_fail = [step |-> 10, kind |-> "error"]

\* the wait for the results timed out on a page that holds an item with the
\* attribute: None was returned
C32_WitnessTimeout ==
    /\ q_result = Returned(NoneStr)
    /\ Carrying # {}
    /\ q_fail = [step |-> 7, kind |-> "timeout"]

\* C33: every call of find_category_urls that returns an empty sequence has
\* invoked Diagnostic Capture exactly once before returning, and a call that
\* returns a non-empty sequence has invoked it zero times.
C33_EmptyIsCaptured ==
    pc = "check_categories" =>
        /\ category_urls = <<>> => Len(diag) = 1
        /\ category_urls # <<>> => Len(diag) = 0

\* the statuses a job's status may move to from status s
Forward(s) ==
    CASE s = "started" -> {"started", "running"}
      [] s = "running" -> {"running", "completed", "failed"}
      [] OTHER -> {s}

\* C34: a job's status only moves forward along started -> running ->
\* {completed, failed}, and 'completed' and 'failed' are absorbing, under
\* every interleaving of run_scraper_job with its check_timeout thread.
C34_StatusMovesForward == [][j_status' \in Forward(j_status)]_vars

\* C35: whenever a concurrent reader can observe the job, status 'completed'
\* implies that its results are set and its error is null.
C35_CompletedHasResults ==
    j_status = "completed" => j_results # "null" /\ j_error = "null"

\* C37: the browser session of a job is quit at most once, across the
\* supervisor's forced close and the finally-block close of run_scraper_job.
C37_QuitAtMostOnce == j_quits <= 1

\* C36: every accepted POST /scrape request gets a job id distinct from the
\* ids of all other jobs, and accepting a request never overwrites the entry
\* of an existing job: each accepted request has an entry of its own.
C36_JobIdsDistinct ==
    /\ \A i, k \in 1..Len(a_accepted) :
            i # k => a_accepted[i] # a_accepted[k]
    /\ Len(active_jobs) = Len(a_accepted)

\* the keys of the categories that scrape_parts returns
ReturnedKeys == DictKeys(results.categories)

\* the candidates whose pagination has returned records
Productive == { i \in 1..Len(collected) : collected[i] # <<>> }

\* C38: on the category path every key of the returned categories maps to a
\* non-empty record sequence, and a resolved candidate whose pagination
\* produced no records gets no key: the keys are the names of the candidates
\* that produced records. On the direct-results path the "Direct Results"
\* key is present once the page was extracted, also with no record.
C38_KeysHaveRecords ==
    /\ (pc = "done" /\ page_type = "category") =>
        /\ \A e \in 1..Len(results.categories) :
                results.categories[e].value # <<>>
        /\ ReturnedKeys = { category_urls[i][1] : i \in Productive }
    /\ (pc = "done" /\ page_type = "results" /\ ~faulted) =>
            DirectResultsKey \in ReturnedKeys

\* a scrape of two candidates of different names has returned: one candidate
\* produced no record, the other did
C38_Witness ==
    /\ pc = "done" /\ page_type = "category"
    /\ Len(collected) = 2
    /\ category_urls[1][1] # category_urls[2][1]
    /\ collected[1] = <<>>
    /\ collected[2] # <<>>

\* a direct-results page without items was extracted
C38_WitnessDirect ==
    /\ pc = "done" /\ page_type = "results" /\ ~faulted
    /\ results.categories = <<[key |-> DirectResultsKey, value |-> <<>>]>>

\* C39: in scrape_category_results every page the browser was advanced to is
\* extracted before the loop ends: at the return of a call that met no
\* browser fault, the number of page extractions equals the number of
\* successful next-clicks plus one, also when the loop was stopped by the
\* page-count ceiling.
C39_AdvancedPagesExtracted ==
    (pc = "store" /\ ~faulted) => extractions = clicks + 1

====
